---- MODULE Spec2Model ----
(***************************************************************************)
(* Model of the oh-my-course viewer (src/scripts/app.js): the filename     *)
(* classifier, the natural sorter, the lesson grouper and the course       *)
(* structure builder as operators, and the CourseViewer object with its    *)
(* localStorage / IndexedDB collaborators as a state machine.              *)
(*                                                                         *)
(* File and folder names are TLA+ strings; a character is a string of      *)
(* length one.  The names of the model are drawn from the characters       *)
(* space, '_', '-', '.', the decimal digits and the ASCII letters.         *)
(***************************************************************************)
EXTENDS Integers, Sequences, FiniteSets, TLC

VARIABLES
    \* the runtime the page runs in: its default locale, and whether the
    \* window has showDirectoryPicker
    runtime,
    \* the builder on its own: the root handle it is given (children in
    \* listing order) and what it returned, for a first and a second listing
    \* of the same directory contents
    listing, built, relisting, rebuilt,
    \* the percentage on its own: the two counts and the value computed
    counts, percentage,
    \* the classifier on its own: a file name and the type it is given
    candidate, fileType,
    \* the sorter on its own: a list of names, the list sorted, and the sorted
    \* list sorted again
    nameList, sortedOnce, sortedTwice,
    \* the folders on disk: folder name -> directory handle (contents)
    disk,
    \* the fields of the CourseViewer object
    directoryHandle, courseStructure, currentLesson, completedLessons,
    courseName, courseLibrary, currentCourseId, videoProgress, shouldAutoPlay,
    \* the collaborators: localStorage, the IndexedDB handle store, the page
    \* with its progress bar, its video player, the course cards of the
    \* homepage, the lesson items of the sidebar, the buttons of the lesson
    \* screen that are disabled, and the lesson items of the mobile course
    \* navigation in the lesson body
    localStorage, handleDB, view, progressBar, player, cards, lessonItems, disabled,
    mobileNav,
    \* the handlers that have returned to the event loop at an await, the
    \* value of Date.now(), and the handler that ran last
    tasks, clock, event,
    \* history: the scans so far, each with the folder, what the scan read
    \* of it and the result of the builder; the folder courseStructure was scanned
    \* from; the position each video reported last; the number of reports;
    \* the number of times the page was loaded
    scans, structureOf, recorded, updates, pageLoads,
    \* the events (clicks, reports of the player, page loads, changes on
    \* disk) that may still arrive in the behaviour
    eventsLeft

(***************************************************************************)
(* Characters and strings                                                  *)
(***************************************************************************)
Ch(s, i) == SubSeq(s, i, i)

LowerAlpha == "abcdefghijklmnopqrstuvwxyz"

UpperAlpha == "ABCDEFGHIJKLMNOPQRSTUVWXYZ"

DigitChars == "0123456789"

Chars(alphabet) == {Ch(alphabet, i) : i \in 1..Len(alphabet)}

\* character -> its position in the alphabet
IndexTable(alphabet) ==
    [c \in Chars(alphabet) |-> CHOOSE i \in 1..Len(alphabet) : Ch(alphabet, i) = c]

LowerIndex == IndexTable(LowerAlpha)

UpperIndex == IndexTable(UpperAlpha)

DigitIndex == IndexTable(DigitChars)

IsDigit(c) == c \in DOMAIN DigitIndex

IsSpace(c) == c = " "

\* String.prototype.toLowerCase on one character
LowerChar(c) ==
    IF c \in DOMAIN UpperIndex THEN Ch(LowerAlpha, UpperIndex[c]) ELSE c

RECURSIVE toLowerCase(_)
toLowerCase(s) ==
    IF s = "" THEN "" ELSE LowerChar(Head(s)) \o toLowerCase(Tail(s))

\* number of leading characters of s, from position i on, that are digits
RECURSIVE DigitRunLen(_, _)
DigitRunLen(s, i) ==
    IF i <= Len(s) /\ IsDigit(Ch(s, i)) THEN 1 + DigitRunLen(s, i + 1) ELSE 0

\* number of leading characters of s, from position i on, that are whitespace
RECURSIVE SpaceRunLen(_, _)
SpaceRunLen(s, i) ==
    IF i <= Len(s) /\ IsSpace(Ch(s, i)) THEN 1 + SpaceRunLen(s, i + 1) ELSE 0

\* position of the last '.' of s, 0 when s has none
LastDot(s) ==
    IF \E i \in 1..Len(s) : Ch(s, i) = "."
    THEN CHOOSE i \in 1..Len(s) :
            Ch(s, i) = "." /\ \A j \in (i + 1)..Len(s) : Ch(s, j) # "."
    ELSE 0

\* String.prototype.trim
RECURSIVE TrimLeft(_)
TrimLeft(s) == IF s # "" /\ IsSpace(Head(s)) THEN TrimLeft(Tail(s)) ELSE s

RECURSIVE TrimRight(_)
TrimRight(s) ==
    IF s # "" /\ IsSpace(Ch(s, Len(s))) THEN TrimRight(SubSeq(s, 1, Len(s) - 1)) ELSE s

trim(s) == TrimRight(TrimLeft(s))

\* the length of the match of /^\d+\.\s*/ at the start of s, 0 when no match
OrdinalPrefixLen(s) ==
    LET d == DigitRunLen(s, 1)
    IN  IF d > 0 /\ d < Len(s) /\ Ch(s, d + 1) = "."
        THEN d + 1 + SpaceRunLen(s, d + 2)
        ELSE 0

(***************************************************************************)
(* Filename classifier                                                     *)
(***************************************************************************)
\* filename.match(/^(\d+)\./) ? match[1] : '0'
extractLessonNumber(filename) ==
    LET d == DigitRunLen(filename, 1)
    IN  IF d > 0 /\ d < Len(filename) /\ Ch(filename, d + 1) = "."
        THEN SubSeq(filename, 1, d)
        ELSE "0"

\* name.replace(/^\d+\.\s*/, '')
cleanSectionName(name) == SubSeq(name, OrdinalPrefixLen(name) + 1, Len(name))

StrippedExtensions == {"mp4", "pdf", "html", "txt", "vtt", "zip", "odp"}

\* s.replace(/\.(mp4|pdf|html|txt|vtt|zip|odp)$/i, '')
StripExtension(s) ==
    LET p == LastDot(s)
    IN  IF p > 0 /\ toLowerCase(SubSeq(s, p + 1, Len(s))) \in StrippedExtensions
        THEN SubSeq(s, 1, p - 1)
        ELSE s

cleanLessonName(filename) ==
    trim(StripExtension(SubSeq(filename, OrdinalPrefixLen(filename) + 1, Len(filename))))

\* filename.split('.').pop().toLowerCase(): the text after the last dot, the
\* whole name when it has no dot
Extension(filename) ==
    toLowerCase(SubSeq(filename, LastDot(filename) + 1, Len(filename)))

\* typeMap[ext] || 'file': a property lookup on an object literal, which also
\* finds the properties the literal inherits from Object.prototype
typeMap(ext) ==
    CASE ext = "mp4"  -> "video"
      [] ext = "vtt"  -> "subtitle"
      [] ext = "pdf"  -> "pdf"
      [] ext = "html" -> "html"
      [] ext = "txt"  -> "text"
      [] ext = "zip"  -> "archive"
      [] ext = "odp"  -> "presentation"
      [] ext = "constructor" -> "[Function: Object]"
      [] ext = "__proto__"   -> "[Object: null prototype] {}"
      [] OTHER        -> "file"

getFileType(filename) == typeMap(Extension(filename))

(***************************************************************************)
(* Natural sorter: a.localeCompare(b, undefined, {numeric: true,           *)
(* sensitivity: 'base'}).  The locale argument is undefined, so the        *)
(* collation is that of the runtime's default locale (runtime.locale, one  *)
(* of Locales).  Primary collation weights only (case is ignored),         *)
(* whitespace < punctuation < digits < letters, a run of digits is one     *)
(* collation unit ordered by its numeric value (leading zeros do not       *)
(* count).  A locale tailors the root collation (that of en-US) with       *)
(* rules: a rule gives a letter, or a group of letters that the locale     *)
(* reads as one letter, its place in the alphabet.  Locales holds one      *)
(* locale for every collation that orders strings of ASCII letters,        *)
(* digits, spaces and the punctuation "_", "-", "." in its own way; a      *)
(* locale that is not listed sorts these strings like one that is listed:  *)
(* sk-SK like cs-CZ, nb-NO and fo-FO like da-DK, fy-NL like lt-LT, bs-BA   *)
(* like hr-HR, to-TO like fil-PH, every other one like en-US.  The rules   *)
(* are those of the CLDR collation data; lv-LV is modelled with y as a     *)
(* letter of its own after i (older data give it the weight of i, which    *)
(* is the order of lt-LT), and blo-BJ, which older data do not have, with  *)
(* the letters gb, kp, ny and sh of the Anii alphabet.                     *)
(***************************************************************************)
Locales ==
    {"en-US", "az-AZ", "blo-BJ", "br-FR", "cs-CZ", "cy-GB", "da-DK", "ee-GH", "et-EE", "fil-PH",
     "ha-NG", "haw-US", "hr-HR", "hu-HU", "ig-NG", "lt-LT", "lv-LV", "om-ET", "sq-AL",
     "th-TH", "tr-TR", "uz-UZ", "yo-NG"}

\* the primary weight of a run of digits
DigitWeight == 5

\* the primary weight of a character in the root collation; the weights of
\* the letters are ten apart, to leave room for the letters a locale puts
\* between
RootWeight(c) ==
    CASE c = " " -> 1
      [] c = "_" -> 2
      [] c = "-" -> 3
      [] c = "." -> 4
      [] IsDigit(c) -> DigitWeight
      [] OTHER -> 10 + 10 * LowerIndex[LowerChar(c)]

\* the rule "&anchor < chars <<< Chars <<< CHARS": chars, in lower case, in
\* upper case or with a capital initial, is the k-th letter after anchor
After(chars, anchor, k) ==
    [chars |-> chars, forms |-> "cased", weights |-> <<RootWeight(anchor) + k>>]

\* the rule also names the form with a capital at the end (cH)
InAnyCase(rule) == [rule EXCEPT !.forms = "any"]

\* the rule does not name the form in upper case
NotInUpperCase(rule) == [rule EXCEPT !.forms = "noUpper"]

\* the rule "&i <<< chars": chars, as it is written, has the weights given
Exactly(chars, weights) == [chars |-> chars, forms |-> "exact", weights |-> weights]

\* the rule "&letter <<< doubled / letter": the doubled form of a letter
\* written with several characters (ccs for cs cs) sorts as the letter twice
Doubled(rule) ==
    [chars |-> Ch(rule.chars, 1) \o rule.chars, forms |-> "cased",
     weights |-> rule.weights \o rule.weights]

\* "&[before 1]i < ı <<< I": the capital of the dotless i sorts before i
DotlessCapital == Exactly("I", <<RootWeight("i") - 1>>)

HungarianLetters ==
    {After("cs", "c", 1), After("dz", "d", 1), After("dzs", "d", 2), After("gy", "g", 1),
     After("ly", "l", 1), After("ny", "n", 1), After("sz", "s", 1), After("ty", "t", 1),
     After("zs", "z", 1)}

\* the rules of a locale on the characters of the model
Tailoring(locale) ==
    CASE locale = "az-AZ" ->
            {DotlessCapital, After("q", "k", 1), After("x", "h", 1), After("w", "z", 1)}
      [] locale = "blo-BJ" ->
            {After("gb", "g", 1), After("kp", "k", 1), After("ny", "n", 1),
             After("sh", "s", 1)}
      [] locale = "br-FR" -> {After("ch", "c", 1)}
      [] locale = "cs-CZ" -> {InAnyCase(After("ch", "h", 1))}
      [] locale = "cy-GB" ->
            {After("ch", "c", 1), After("dd", "d", 1), After("ff", "f", 1),
             After("ng", "g", 1), After("ll", "l", 1), After("ph", "p", 1),
             After("rh", "r", 1), After("th", "t", 1)}
      [] locale = "da-DK" -> {After("aa", "z", 1)}
      [] locale = "ee-GH" ->
            {After("dz", "d", 1), After("gb", "g", 1), After("x", "h", 1),
             After("kp", "k", 1), After("ny", "n", 1), After("ts", "t", 1)}
      [] locale = "et-EE" -> {After("z", "s", 1)}
      [] locale = "fil-PH" -> {After("ng", "n", 1)}
      [] locale = "ha-NG" -> {After("sh", "s", 1), After("ts", "t", 1)}
      [] locale = "haw-US" ->
            {After("e", "a", 1), After("i", "a", 2), After("o", "a", 3), After("u", "a", 4)}
      [] locale = "hr-HR" -> {After("lj", "l", 1), After("nj", "n", 1)}
      [] locale = "hu-HU" -> HungarianLetters \cup {Doubled(r) : r \in HungarianLetters}
      [] locale = "ig-NG" ->
            {After("ch", "b", 1), After("gb", "g", 1), After("gh", "g", 2),
             After("gw", "g", 3), After("kp", "k", 1), After("kw", "k", 2),
             After("nw", "n", 1), After("ny", "n", 2), After("sh", "s", 1)}
      [] locale = "lt-LT" -> {After("y", "i", 0)}
      [] locale = "lv-LV" -> {After("y", "i", 1)}
      [] locale = "om-ET" ->
            {After("ch", "z", 1), After("dh", "z", 2), After("kh", "z", 3),
             After("ny", "z", 4), After("ph", "z", 5), NotInUpperCase(After("sh", "z", 6))}
      [] locale = "sq-AL" ->
            {After("dh", "d", 1), After("gj", "g", 1), After("ll", "l", 1),
             After("nj", "n", 1), After("rr", "r", 1), After("sh", "s", 1),
             After("th", "t", 1), After("xh", "x", 1), After("zh", "z", 1)}
      [] locale = "th-TH" -> {Exactly(c, <<>>) : c \in {" ", "_", "-", "."}}
      [] locale = "tr-TR" -> {DotlessCapital}
      [] locale = "uz-UZ" -> {After("sh", "z", 1), After("ch", "z", 2)}
      [] locale = "yo-NG" -> {After("gb", "g", 1)}
      [] OTHER -> {}

IsUpper(c) == c \in DOMAIN UpperIndex

AllUpper(s) == \A k \in 1..Len(s) : IsUpper(Ch(s, k))

NoneUpper(s) == \A k \in 1..Len(s) : ~IsUpper(Ch(s, k))

\* the text is the rule's characters in one of the forms the rule names
InForm(text, rule) ==
    IF rule.forms = "exact" THEN text = rule.chars
    ELSE /\ toLowerCase(text) = rule.chars
         /\ \/ rule.forms = "any"
            \/ NoneUpper(text)
            \/ AllUpper(text) /\ (rule.forms = "cased" \/ Len(text) = 1)
            \/ IsUpper(Head(text)) /\ NoneUpper(Tail(text))

\* the rules of every locale
Tailorings == [locale \in Locales |-> Tailoring(locale)]

\* the rules of the runtime's locale that apply to s at position i
RulesAt(s, i) ==
    {rule \in Tailorings[runtime.locale] :
        /\ i + Len(rule.chars) - 1 <= Len(s)
        /\ InForm(SubSeq(s, i, i + Len(rule.chars) - 1), rule)}

\* the longest of the rules
Longest(rules) ==
    CHOOSE rule \in rules : \A other \in rules : Len(other.chars) <= Len(rule.chars)

\* the collation unit of s at position i: the characters it takes and their
\* primary weights; the longest rule that applies, else the character with
\* its weight in the root collation
UnitAt(s, i) ==
    LET rules == RulesAt(s, i)
    IN  IF rules = {}
        THEN Exactly(Ch(s, i), <<RootWeight(Ch(s, i))>>)
        ELSE Longest(rules)

Sign(x, y) == IF x < y THEN -1 ELSE IF x > y THEN 1 ELSE 0

RECURSIVE StripZeros(_)
StripZeros(d) == IF Len(d) > 1 /\ Head(d) = "0" THEN StripZeros(Tail(d)) ELSE d

\* lexicographic comparison of two digit strings of the same length
RECURSIVE CompareDigits(_, _)
CompareDigits(x, y) ==
    IF x = "" THEN 0
    ELSE IF Head(x) # Head(y)
         THEN Sign(DigitIndex[Head(x)], DigitIndex[Head(y)])
         ELSE CompareDigits(Tail(x), Tail(y))

\* comparison of two digit strings without leading zeros by numeric value
CompareStripped(sx, sy) ==
    IF Len(sx) # Len(sy) THEN Sign(Len(sx), Len(sy)) ELSE CompareDigits(sx, sy)

\* the run of digits of s that starts at position i
DigitRun(s, i) == SubSeq(s, i, i + DigitRunLen(s, i) - 1)

\* an element of a sort key: a primary weight and, for a run of digits, its
\* digits without the leading zeros
KeyElement(weight, number) == [weight |-> weight, number |-> number]

\* the sort key of s from position i on: a run of digits gives one element,
\* a collation unit one element for each of its weights (none for a
\* character the locale ignores)
RECURSIVE CollationKey(_, _)
CollationKey(s, i) ==
    IF i > Len(s) THEN <<>>
    ELSE IF IsDigit(Ch(s, i))
         THEN <<KeyElement(DigitWeight, StripZeros(DigitRun(s, i)))>>
              \o CollationKey(s, i + DigitRunLen(s, i))
         ELSE LET unit == UnitAt(s, i)
              IN  [k \in 1..Len(unit.weights) |-> KeyElement(unit.weights[k], "")]
                  \o CollationKey(s, i + Len(unit.chars))

CompareElements(e, f) ==
    IF e.weight # f.weight
    THEN Sign(e.weight, f.weight)
    ELSE CompareStripped(e.number, f.number)

\* the first difference decides
OrElse(c, rest) == IF c # 0 THEN c ELSE rest

\* lexicographic comparison of two sort keys
RECURSIVE CompareKeys(_, _)
CompareKeys(x, y) ==
    IF x = <<>> /\ y = <<>> THEN 0
    ELSE IF x = <<>> THEN -1
    ELSE IF y = <<>> THEN 1
    ELSE OrElse(CompareElements(Head(x), Head(y)), CompareKeys(Tail(x), Tail(y)))

naturalSort(a, b) == CompareKeys(CollationKey(a, 1), CollationKey(b, 1))

(***************************************************************************)
(* Array.prototype.sort with a comparator: a stable sort, here by          *)
(* insertion: each element goes behind the elements already placed that    *)
(* do not compare after it.                                                *)
(***************************************************************************)
InsertAt(order, pos, n) ==
    SubSeq(order, 1, pos) \o <<n>> \o SubSeq(order, pos + 1, Len(order))

\* position n goes behind the positions of order whose key is not after its key
InsertSorted(order, keys, n) ==
    InsertAt(order,
             Cardinality({k \in 1..Len(order) : naturalSort(keys[order[k]], keys[n]) <= 0}),
             n)

\* keys[i] is the sort key of the i-th element; the result lists the
\* positions 1..n in sorted order
RECURSIVE SortedPositions(_, _)
SortedPositions(keys, n) ==
    IF n = 0 THEN <<>> ELSE InsertSorted(SortedPositions(keys, n - 1), keys, n)

Reordered(seq, order) == [k \in 1..Len(seq) |-> seq[order[k]]]

StableSort(seq, keys) == Reordered(seq, SortedPositions(keys, Len(seq)))

\* variant: the entries stay in listing order
SortByNameUnsorted(entries) == entries

\* variant: a group is named after the last file it is given
EnsureGroupRenamed(lessonGroups, lessonNumber, filename) ==
    IF \E k \in 1..Len(lessonGroups) : lessonGroups[k].number = lessonNumber
    THEN [k \in 1..Len(lessonGroups) |->
             IF lessonGroups[k].number = lessonNumber
             THEN [lessonGroups[k] EXCEPT !.name = cleanLessonName(filename)]
             ELSE lessonGroups[k]]
    ELSE Append(lessonGroups, [number |-> lessonNumber,
                               name   |-> cleanLessonName(filename),
                               files  |-> <<>>])

\* entries.sort((a, b) => this.naturalSort(a.name, b.name))
SortByName(entries) == StableSort(entries, [i \in DOMAIN entries |-> entries[i].name])

\* variant: the retained groups stay in the order in which they were made
SortByNumberUnsorted(lessons) == lessons

\* lessons.sort((a, b) => this.naturalSort(a.number, b.number))
SortByNumber(lessons) == StableSort(lessons, [i \in DOMAIN lessons |-> lessons[i].number])

SelectKind(entries, kind) == SelectSeq(entries, LAMBDA e : e.kind = kind)

(***************************************************************************)
(* Lesson grouper and course structure builder.  A directory handle is a   *)
(* record [kind, name, children]; children is the sequence of entries in   *)
(* the order in which the handle's values() iterator yields them.          *)
(* lessonGroups, a Map in the source, is the sequence of its values in     *)
(* insertion order.                                                        *)
(***************************************************************************)
IsLessonFile(type) == type = "video" \/ type = "subtitle"

\* position of the group with this lesson number, 0 when lessonGroups has none
GroupIndex(lessonGroups, lessonNumber) ==
    IF \E k \in 1..Len(lessonGroups) : lessonGroups[k].number = lessonNumber
    THEN CHOOSE k \in 1..Len(lessonGroups) : lessonGroups[k].number = lessonNumber
    ELSE 0

\* if (!lessonGroups.has(lessonNumber)) lessonGroups.set(lessonNumber, {...})
EnsureGroup(lessonGroups, lessonNumber, filename) ==
    IF GroupIndex(lessonGroups, lessonNumber) = 0
    THEN Append(lessonGroups, [number |-> lessonNumber,
                               name   |-> cleanLessonName(filename),
                               files  |-> <<>>])
    ELSE lessonGroups

\* lessonGroups.get(lessonNumber).files.push(file)
PushFile(lessonGroups, lessonNumber, file) ==
    [lessonGroups EXCEPT ![GroupIndex(lessonGroups, lessonNumber)].files = Append(@, file)]

\* the body of the loop over the sorted lessonEntries, for a file of this
\* lesson number and type
GroupFile(acc, filename, lessonNumber, type) ==
    IF IsLessonFile(type)
    THEN [lessonGroups  |-> PushFile(EnsureGroup(acc.lessonGroups, lessonNumber, filename),
                                     lessonNumber,
                                     [name |-> filename, type |-> type]),
          nonVideoFiles |-> acc.nonVideoFiles,
          videos        |-> acc.videos + (IF type = "video" THEN 1 ELSE 0)]
    ELSE [lessonGroups  |-> acc.lessonGroups,
          nonVideoFiles |-> Append(acc.nonVideoFiles, filename),
          videos        |-> acc.videos]

\* one iteration of the loop over the sorted lessonEntries
GroupStep(acc, lessonEntry) ==
    GroupFile(acc, lessonEntry.name,
              extractLessonNumber(lessonEntry.name), getFileType(lessonEntry.name))

\* the loop over the first n of the sorted lessonEntries
RECURSIVE GroupFirst(_, _)
GroupFirst(lessonEntries, n) ==
    IF n = 0
    THEN [lessonGroups |-> <<>>, nonVideoFiles |-> <<>>, videos |-> 0]
    ELSE GroupStep(GroupFirst(lessonEntries, n - 1), lessonEntries[n])

GroupLessons(lessonEntries) == GroupFirst(lessonEntries, Len(lessonEntries))

\* variant: a group is kept as soon as it holds any file
HasVideoAnyFile(lesson) == Len(lesson.files) > 0

\* variant: no group is kept
HasVideoNever(lesson) == FALSE

\* lesson.files.some(f => f.type === 'video')
HasVideo(lesson) == \E i \in 1..Len(lesson.files) : lesson.files[i].type = "video"

\* variant: a group dropped for lacking a video also sets the flag
HasNonVideoFilesOrDropped(grouped) ==
    \/ Len(grouped.nonVideoFiles) > 0
    \/ \E k \in DOMAIN grouped.lessonGroups :
          \A i \in DOMAIN grouped.lessonGroups[k].files :
             grouped.lessonGroups[k].files[i].type # "video"

\* section.hasNonVideoFiles = nonVideoFiles.length > 0
HasNonVideoFiles(grouped) == Len(grouped.nonVideoFiles) > 0

\* the section object built from the grouped files of the directory, and the
\* videos the directory adds to totalVideosFound
SectionOf(name, grouped) ==
    [section |-> [name             |-> cleanSectionName(name),
                  rawName          |-> name,
                  lessons          |-> SortByNumber(SelectSeq(grouped.lessonGroups, HasVideo)),
                  hasNonVideoFiles |-> HasNonVideoFiles(grouped)],
     videos  |-> grouped.videos]

\* the body of the loop over the sorted section directories
parseSection(entry) ==
    SectionOf(entry.name, GroupLessons(SortByName(SelectKind(entry.children, "file"))))

ParseSections(sorted) == [i \in 1..Len(sorted) |-> parseSection(sorted[i])]

\* variant: every candidate section is pushed
KeepSectionAlways(section) == TRUE

\* if (section.lessons.length > 0) structure.push(section)
KeepSection(section) == Len(section.lessons) > 0

PushedSections(parsed) ==
    SelectSeq([i \in 1..Len(parsed) |-> parsed[i].section], KeepSection)

RECURSIVE SumVideos(_, _)
SumVideos(parsed, n) == IF n = 0 THEN 0 ELSE SumVideos(parsed, n - 1) + parsed[n].videos

\* variant: the check for directories is missing
NoSectionsFoundNever(entries) == FALSE

NoSectionsFound(entries) == Len(entries) = 0

\* variant: the check for videos is missing
NoVideosFoundNever(totalVideosFound) == FALSE

NoVideosFound(totalVideosFound) == totalVideosFound = 0

\* if (structure.length === 0) throw ...; return structure
ReturnStructure(structure) ==
    IF Len(structure) = 0
    THEN [error |-> "InvalidFormat", structure |-> <<>>]
    ELSE [error |-> "none", structure |-> structure]

\* the checks of the builder on the directory entries and the parsed sections
CheckedStructure(entries, parsed) ==
    IF NoSectionsFound(entries)
    THEN [error |-> "NoSections", structure |-> <<>>]
    ELSE IF NoVideosFound(SumVideos(parsed, Len(parsed)))
    THEN [error |-> "NoVideos", structure |-> <<>>]
    ELSE ReturnStructure(PushedSections(parsed))

ParseEntries(entries) == CheckedStructure(entries, ParseSections(SortByName(entries)))

\* the result is [error, structure]; error "none" is a normal return, the
\* other values are the three Errors the function throws
parseCourseStructure(dirHandle) ==
    ParseEntries(SelectKind(dirHandle.children, "directory"))

(***************************************************************************)
(* Number arithmetic of the percentage: (completedCount / totalLessons)    *)
(* * 100 is evaluated in IEEE-754 binary64, every operation rounded to     *)
(* nearest, ties to even, and Math.round then rounds to the closest        *)
(* integer, ties upwards.  A binary64 value is [m, e]: the bits of its     *)
(* significand (most significant first, at most 53, <<>> for zero) and the *)
(* exponent of its last bit, so that the value is m * 2^e.                 *)
(***************************************************************************)
SignificandBits == 53

RECURSIVE IntToBits(_)
IntToBits(n) == IF n = 0 THEN <<>> ELSE Append(IntToBits(n \div 2), n % 2)

RECURSIVE BitsToInt(_)
BitsToInt(bits) ==
    IF bits = <<>> THEN 0
    ELSE 2 * BitsToInt(SubSeq(bits, 1, Len(bits) - 1)) + bits[Len(bits)]

RECURSIVE StripZeroBits(_)
StripZeroBits(bits) ==
    IF bits # <<>> /\ Head(bits) = 0 THEN StripZeroBits(Tail(bits)) ELSE bits

\* Significands are divided, multiplied and incremented limb by limb: 16
\* bits at a time (operands below 2^15 keep every product below 2^31)
LimbWidth == 16

LimbBase == 65536

ZeroBits(n) == [i \in 1..n |-> 0]

PadBits(bits, n) == ZeroBits(n - Len(bits)) \o bits

\* the first n limbs (16 n bits) of the binary expansion of r / t, 0 <= r < t
RECURSIVE FractionBits(_, _, _)
FractionBits(r, t, n) ==
    IF n = 0 THEN <<>>
    ELSE PadBits(IntToBits((r * LimbBase) \div t), LimbWidth)
         \o FractionBits((r * LimbBase) % t, t, n - 1)

\* the remainder left after those n limbs
RECURSIVE FractionRest(_, _, _)
FractionRest(r, t, n) ==
    IF n = 0 THEN r ELSE FractionRest((r * LimbBase) % t, t, n - 1)

\* limbs of the quotient that are computed: 80 bits, of which at least 64
\* follow the leading one
FractionLimbs == 5

\* a sequence of limbs, least significant limb first
RECURSIVE BitsToLimbs(_)
BitsToLimbs(bits) ==
    IF Len(bits) <= LimbWidth THEN <<BitsToInt(bits)>>
    ELSE <<BitsToInt(SubSeq(bits, Len(bits) - LimbWidth + 1, Len(bits)))>>
         \o BitsToLimbs(SubSeq(bits, 1, Len(bits) - LimbWidth))

RECURSIVE LimbsToBits(_)
LimbsToBits(limbs) ==
    IF limbs = <<>> THEN <<>>
    ELSE LimbsToBits(Tail(limbs)) \o PadBits(IntToBits(Head(limbs)), LimbWidth)

\* limbs * k + carry
RECURSIVE MulAdd(_, _, _)
MulAdd(limbs, k, carry) ==
    IF limbs = <<>>
    THEN IF carry = 0 THEN <<>> ELSE <<carry>>
    ELSE LET v == Head(limbs) * k + carry
         IN  <<v % LimbBase>> \o MulAdd(Tail(limbs), k, v \div LimbBase)

\* the bits of bits * k + carry, without leading zeros
MulAddBits(bits, k, carry) ==
    StripZeroBits(LimbsToBits(MulAdd(BitsToLimbs(bits), k, carry)))

\* the exact value (bits, followed by a non-zero tail when sticky) is above
\* the middle of its two neighbours of 53 bits, or in the middle with the
\* lower neighbour odd
RoundsUp(bits, sticky) ==
    /\ bits[SignificandBits + 1] = 1
    /\ \/ sticky
       \/ \E i \in (SignificandBits + 2)..Len(bits) : bits[i] = 1
       \/ bits[SignificandBits] = 1

Rounded(keep, up) == IF up THEN MulAddBits(keep, 1, 1) ELSE keep

\* a significand that the increment carried out of 53 bits loses its last bit
Renormalized(m, drop) ==
    IF Len(m) > SignificandBits
    THEN [m |-> SubSeq(m, 1, SignificandBits), shift |-> drop + 1]
    ELSE [m |-> m, shift |-> drop]

\* round an exact value (bits, followed by a non-zero tail when sticky) to
\* 53 significant bits; shift is the number of low bits given up
RoundToNearestEven(bits, sticky) ==
    IF Len(bits) <= SignificandBits
    THEN [m |-> bits, shift |-> 0]
    ELSE Renormalized(Rounded(SubSeq(bits, 1, SignificandBits), RoundsUp(bits, sticky)),
                      Len(bits) - SignificandBits)

\* the rounded significand r with the exponent e of the last bit before rounding
Scaled(r, e) == [m |-> r.m, e |-> e + r.shift]

\* c / t for integers c >= 0 and 0 < t < 2^15
NumberDivide(c, t) ==
    IF c = 0
    THEN [m |-> <<>>, e |-> 0]
    ELSE Scaled(RoundToNearestEven(
                    StripZeroBits(IntToBits(c \div t) \o FractionBits(c % t, t, FractionLimbs)),
                    FractionRest(c % t, t, FractionLimbs) # 0),
                0 - FractionLimbs * LimbWidth)

\* x * 100
NumberTimes100(x) == Scaled(RoundToNearestEven(MulAddBits(x.m, 100, 0), FALSE), x.e)

\* Math.round(x) for 0 <= x < 2^31 (the exponent of such a value is <= 0)
MathRound(x) ==
    LET k == 0 - x.e
        L == Len(x.m)
    IN  IF k > L THEN 0
        ELSE IF k = L THEN (IF L > 0 THEN 1 ELSE 0)
        ELSE BitsToInt(SubSeq(x.m, 1, L - k)) + (IF k > 0 THEN x.m[L - k + 1] ELSE 0)

\* totalLessons > 0 ? Math.round((completedCount / totalLessons) * 100) : 0
Percentage(completedCount, totalLessons) ==
    IF totalLessons > 0
    THEN MathRound(NumberTimes100(NumberDivide(completedCount, totalLessons)))
    ELSE 0

(***************************************************************************)
(* Directory listings.  dirHandle.values() yields the entries of a         *)
(* directory in an order the File System Access API leaves open: every     *)
(* order of the same entries is a listing the builder can be given.        *)
(***************************************************************************)
FileEntry(name) == [kind |-> "file", name |-> name, children |-> <<>>]

DirEntry(name, children) == [kind |-> "directory", name |-> name, children |-> children]

Range(seq) == {seq[i] : i \in DOMAIN seq}

\* the sequences over S without repetition, of length at most n
RECURSIVE DistinctSeqs(_, _)
DistinctSeqs(S, n) ==
    IF n = 0 THEN {<<>>}
    ELSE LET shorter == DistinctSeqs(S, n - 1)
             longest == {q \in shorter : Len(q) = n - 1}
         IN  shorter \cup UNION {{Append(q, x) : x \in S \ Range(q)} : q \in longest}

PermsOf(seq) ==
    {[i \in 1..Len(seq) |-> seq[p[i]]] : p \in Permutations(1..Len(seq))}

\* the sequences whose i-th element is drawn from sets[i]
RECURSIVE SeqProduct(_)
SeqProduct(sets) ==
    IF sets = <<>> THEN {<<>>}
    ELSE {<<x>> \o rest : x \in Head(sets), rest \in SeqProduct(Tail(sets))}

\* the listings of one entry: its children in every order
ReorderEntry(entry) == {[entry EXCEPT !.children = c] : c \in PermsOf(entry.children)}

\* the listings of a two-level directory with the same contents as dirHandle
Enumerations(dirHandle) ==
    {[dirHandle EXCEPT !.children = c] :
        c \in UNION {SeqProduct([i \in 1..Len(q) |-> ReorderEntry(q[i])]) :
                        q \in PermsOf(dirHandle.children)}}

(***************************************************************************)
(* State                                                                   *)
(***************************************************************************)
builderVars == <<listing, built, relisting, rebuilt>>

percentVars == <<counts, percentage>>

classifierVars == <<candidate, fileType>>

sorterVars == <<nameList, sortedOnce, sortedTwice>>

viewerVars == <<directoryHandle, courseStructure, currentLesson, completedLessons,
                courseName, courseLibrary, currentCourseId, videoProgress, shouldAutoPlay>>

\* what renderLessonContent puts beside the player and what the
\* navigation buttons show
controls == <<disabled, mobileNav>>

pageVars ==
    <<localStorage, handleDB, view, progressBar, player, cards, lessonItems, controls>>

loadVars == <<tasks, clock, event>>

historyVars == <<scans, structureOf, recorded, updates, pageLoads>>

\* no step changes the runtime
appVars == <<runtime, disk, viewerVars, pageVars, loadVars, historyVars, eventsLeft>>

pureVars == <<runtime, builderVars, percentVars, classifierVars, sorterVars>>

vars == <<pureVars, appVars>>

Null == "null"

\* a Map, or the keys of localStorage under one prefix, with no entry
EmptyMap == [k \in {} |-> Null]

NotRun == [error |-> "NotRun", structure |-> <<>>]

NoListing == DirEntry("", <<>>)

NoLesson == [sectionIndex |-> -1, lessonIndex |-> -1]

NoCounts == [completedCount |-> 0, totalLessons |-> 0]

\* the percentage is a sequence: empty until it is computed
NoPercentage == <<>>

EmptyStorage ==
    [course_library  |-> EmptyMap,
     course_progress |-> EmptyMap,
     last_session    |-> EmptyMap,
     last_course_id  |-> Null,
     video_progress  |-> EmptyMap]

\* the page has no video player
NoPlayer == [lessonId |-> Null, video |-> <<>>, startTime |-> 0]

\* the library, in memory and persisted, and the session, before any load
NoSession ==
    [library          |-> EmptyMap,
     stored           |-> EmptyMap,
     currentCourseId  |-> Null,
     courseName       |-> "",
     directoryHandle  |-> Null,
     courseStructure  |-> <<>>,
     completedLessons |-> {}]

\* the locals of a scan: the entries the iterator of the root has yielded
\* and whether it has ended, the directories among them, sorted, from then
\* on (entries), the sections listed in full, each with its files
\* (lessonEntries), the entries the iterator of the section being listed
\* has yielded, and whether an iterator has thrown
NothingRead ==
    [root     |-> <<>>,
     rootDone |-> FALSE,
     entries  |-> <<>>,
     sections |-> <<>>,
     files    |-> <<>>,
     failed   |-> FALSE]

\* a handler that has returned to the event loop at an await: pc names the
\* await, the other fields are the locals the handler holds across it
\* (those it does not hold are left as here).  before is not a local: it is
\* the library and the session as they were when the load began.
NoTask ==
    [pc         |-> "none",
     op         |-> "none",
     shouldOpen |-> FALSE,
     courseId   |-> Null,
     name       |-> "",
     folder     |-> Null,
     entry      |-> 0,
     video      |-> <<>>,
     subtitle   |-> "",
     lessonId   |-> Null,
     savedTime  |-> 0,
     awaited    |-> FALSE,
     detached   |-> FALSE,
     read       |-> NothingRead,
     before     |-> NoSession]

\* init() at "await this.handleDB.init()"
InitTask == [NoTask EXCEPT !.pc = "init"]

\* no handler has run, or the last one has nothing to tell
NoEvent == [op |-> "none", outcome |-> "none", modals |-> <<>>]

\* the type is a sequence: empty until the name is classified
NoType == <<>>

\* a list that has not been sorted yet
NotSorted == <<"NotSorted", "", "">>

BuilderIdle ==
    /\ listing = NoListing /\ built = NotRun
    /\ relisting = NoListing /\ rebuilt = NotRun

PercentIdle == counts = NoCounts /\ percentage = NoPercentage

ClassifierIdle == candidate = "" /\ fileType = NoType

SorterIdle == nameList = <<>> /\ sortedOnce = NotSorted /\ sortedTwice = NotSorted

\* the builder, the percentage, the classifier and the sorter are idle
PureIdle == BuilderIdle /\ PercentIdle /\ ClassifierIdle /\ SorterIdle

\* a browser with the File System Access API and the locale en-US
UsualRuntime == [locale |-> "en-US", directoryPicker |-> TRUE]

\* the CourseViewer and the page after "new CourseViewer()" and
\* "courseViewer.loadVideoProgress()" (lines 86-100, 1373-1376): init() has
\* returned at its first await, localStorage and the handle store are what
\* the profile holds
Constructed(storage, handles) ==
    /\ directoryHandle = Null
    /\ courseStructure = <<>>
    /\ currentLesson = NoLesson
    /\ completedLessons = {}
    /\ courseName = ""
    /\ courseLibrary = EmptyMap
    /\ currentCourseId = Null
    /\ videoProgress = storage.video_progress
    /\ shouldAutoPlay = FALSE
    /\ localStorage = storage
    /\ handleDB = handles
    /\ view = "home"
    /\ progressBar = 0
    /\ player = NoPlayer
    /\ cards = {}
    /\ lessonItems = {}
    /\ disabled = {}
    /\ mobileNav = {}
    /\ tasks = <<InitTask>>
    /\ event = NoEvent

\* the page is loaded for the first time, on a fresh profile
FreshProfile ==
    /\ Constructed(EmptyStorage, EmptyMap)
    /\ clock = 1
    /\ scans = <<>>
    /\ structureOf = Null
    /\ recorded = EmptyMap
    /\ updates = 0
    /\ pageLoads = 1

\* the viewer of the specifications that apply one function: no folder is
\* on disk and the page stays as it was constructed
ViewerIdle == disk = EmptyMap /\ FreshProfile /\ eventsLeft = 0

(***************************************************************************)
(* The builder applied to bounded directory listings                       *)
(***************************************************************************)
MaxFiles == 3

BuilderFileNames ==
    {"2.a.mp4", "2.A.mp4", "2.a.vtt", "3.b.vtt", "10.c.mp4", "notes.pdf",
     "02.d.mp4", "0.c.mp4", "b.mp4", "a.vtt", "t.mp4", "z.mp4", "_a.mp4", "0 e.mp4"}

\* the section "1. s" holding up to n of the names, in any listing order
SectionEntries(n) ==
    {DirEntry("1. s", [i \in DOMAIN q |-> FileEntry(q[i])]) :
        q \in DistinctSeqs(BuilderFileNames, n)}

\* the section when it is the only entry of the root
MainEntries == SectionEntries(MaxFiles)

\* the section when the root lists another entry beside it
BesideEntries == SectionEntries(MaxFiles - 1)

OtherEntries ==
    {DirEntry("2. Extra", <<FileEntry("notes.pdf")>>),
     DirEntry("1. S", <<FileEntry("2.a.mp4")>>),
     DirEntry("10. t", <<FileEntry("3.b.vtt"), DirEntry("sub", <<>>)>>),
     DirEntry("2. u", <<FileEntry("10.c.mp4"), FileEntry("1.mp4")>>),
     FileEntry("top.mp4")}

RootListings ==
    {<<>>}
    \cup {<<e>> : e \in MainEntries \cup OtherEntries}
    \cup {<<e, o>> : e \in BesideEntries, o \in OtherEntries}
    \cup {<<o, e>> : e \in BesideEntries, o \in OtherEntries}
    \cup {<<o, e>> \in OtherEntries \X OtherEntries : o # e}

\* the locales of the builder's runtime: et-EE sorts the names of these
\* listings in its own way (z.mp4 before t.mp4); under every other locale
\* of Locales any two names of the files of a section, and any two names of
\* the entries of the root, compare as they do under en-US, and haw-US
\* (another alphabet) and th-TH (punctuation is ignored) stand for them
BuilderLocales == {"en-US", "et-EE", "haw-US", "th-TH"}

InitBuilder ==
    /\ runtime \in [locale : BuilderLocales, directoryPicker : {TRUE}]
    /\ listing \in {DirEntry("course", c) : c \in RootListings}
    /\ built = NotRun
    /\ relisting = NoListing /\ rebuilt = NotRun
    /\ PercentIdle /\ ClassifierIdle /\ SorterIdle
    /\ ViewerIdle

\* structure = await this.parseCourseStructure(dirHandle)
Build ==
    /\ built = NotRun
    /\ built' = parseCourseStructure(listing)
    /\ UNCHANGED <<listing, relisting, rebuilt, percentVars, classifierVars, sorterVars,
                   appVars>>

\* a second invocation on the unchanged directory, listed in any order
Rebuild ==
    /\ built # NotRun
    /\ rebuilt = NotRun
    /\ \E e \in Enumerations(listing) :
          /\ relisting' = e
          /\ rebuilt' = parseCourseStructure(e)
    /\ UNCHANGED <<listing, built, percentVars, classifierVars, sorterVars, appVars>>

NextBuilder == Build \/ Rebuild

SpecBuilder == InitBuilder /\ [][NextBuilder]_vars

(***************************************************************************)
(* The percentage applied to bounded counts                                *)
(***************************************************************************)
MaxLessons == 40

InitPercent ==
    /\ runtime = UsualRuntime
    /\ counts \in [completedCount : 0..MaxLessons, totalLessons : 0..MaxLessons]
    /\ percentage = NoPercentage
    /\ BuilderIdle /\ ClassifierIdle /\ SorterIdle
    /\ ViewerIdle

\* updateProgressBar / saveCourseProgress on these counts
ComputePercentage ==
    /\ percentage = NoPercentage
    /\ percentage' = <<Percentage(counts.completedCount, counts.totalLessons)>>
    /\ UNCHANGED <<counts, builderVars, classifierVars, sorterVars, appVars>>

NextPercent == ComputePercentage

SpecPercent == InitPercent /\ [][NextPercent]_vars

(***************************************************************************)
(* The classifier applied to bounded file names                            *)
(***************************************************************************)
\* what stands before the extension: nothing, a name without a dot, and
\* names that end in a dot
NameStems == {"", "a", "1.a.", "x.y."}

NameEndings ==
    {"mp4", "MP4", "Mp4", "vtt", "VTT", "pdf", "Pdf", "html", "HTML", "txt", "zip", "odp",
     "ODP", "mkv", "mp3", "mp4x", "constructor", "b"}

FileNamePool == {stem \o ending : stem \in NameStems, ending \in NameEndings}

InitClassifier ==
    /\ runtime = UsualRuntime
    /\ candidate \in FileNamePool
    /\ fileType = NoType
    /\ BuilderIdle /\ PercentIdle /\ SorterIdle
    /\ ViewerIdle

\* const fileType = this.getFileType(lessonEntry.name)
Classify ==
    /\ fileType = NoType
    /\ fileType' = <<getFileType(candidate)>>
    /\ UNCHANGED <<candidate, builderVars, percentVars, sorterVars, appVars>>

NextClassifier == Classify

SpecClassifier == InitClassifier /\ [][NextClassifier]_vars

(***************************************************************************)
(* The sorter applied to bounded lists of names                            *)
(***************************************************************************)
MaxNames == 3

SorterNames ==
    {"2.a", "10.a", "2.A", "02.a", "a 1", "b", "t", "z", "ch", "d", "aa", "i", "I", "y",
     "sh", "si"}

RECURSIVE SeqsUpTo(_, _)
SeqsUpTo(S, n) ==
    IF n = 0 THEN {<<>>}
    ELSE SeqsUpTo(S, n - 1)
         \cup {Append(q, x) : q \in {r \in SeqsUpTo(S, n - 1) : Len(r) = n - 1}, x \in S}

\* list.sort((a, b) => this.naturalSort(a, b))
SortNames(list) == StableSort(list, list)

InitSorter ==
    /\ runtime \in [locale : Locales, directoryPicker : {TRUE}]
    /\ nameList \in SeqsUpTo(SorterNames, MaxNames)
    /\ sortedOnce = NotSorted /\ sortedTwice = NotSorted
    /\ BuilderIdle /\ PercentIdle /\ ClassifierIdle
    /\ ViewerIdle

Sort ==
    /\ sortedOnce = NotSorted
    /\ sortedOnce' = SortNames(nameList)
    /\ UNCHANGED <<nameList, sortedTwice, builderVars, percentVars, classifierVars, appVars>>

\* the sorted list is sorted again
SortAgain ==
    /\ sortedOnce # NotSorted
    /\ sortedTwice = NotSorted
    /\ sortedTwice' = SortNames(sortedOnce)
    /\ UNCHANGED <<nameList, sortedOnce, builderVars, percentVars, classifierVars, appVars>>

NextSorter == Sort \/ SortAgain

SpecSorter == InitSorter /\ [][NextSorter]_vars

(***************************************************************************)
(* The course viewer.  A step is what a handler does between two returns   *)
(* to the event loop: from the user's click, or from the answer to an      *)
(* await, up to the next await or the end of the handler.  A handler that  *)
(* waits at an await after which it still does something is a task: tasks  *)
(* holds them in the order in which they began their present wait, and any *)
(* of them may be answered next, except that the handle store answers its  *)
(* requests in the order in which they were made when one of them writes.  *)
(* A request to the handle store may fail: the await throws.  A dialog     *)
(* after which the handler does nothing is shown by the step that ends the *)
(* handler.  The dialogs share their buttons: every showModal adds its     *)
(* listeners to the one confirm button and the one cancel button, so a     *)
(* click answers every dialog that is awaited.  The awaits of the          *)
(* permission check of a stored handle (queryPermission,                   *)
(* requestPermission, values().next()) are one wait: the handler reads and *)
(* writes nothing between them.  A directory handle is the name of its     *)
(* folder; a scan reads the folder entry by entry, in any order, while the *)
(* folder may change.  Date.now() is the value of clock,                   *)
(* which advances with every step that reads it; the timestamp of the      *)
(* last-session record, which nothing reads, is left out.  event is the    *)
(* handler that ran last, how the step ended and the titles of the dialogs *)
(* it showed, for the handlers that load or delete a course; the handlers  *)
(* of the lesson screen, which show no dialog, leave NoEvent.  view is the *)
(* screen that is shown: the folder buttons and the course cards belong to *)
(* the homepage ("home"), the sidebar and the lesson buttons to the lesson *)
(* screen ("course"), the home button to both.  The lesson screen has the  *)
(* controls of both layouts: the sidebar and the buttons of the desktop    *)
(* layout, and the course navigation and the buttons that                  *)
(* renderLessonContent puts into the lesson body for the mobile layout.    *)
(* A button that is disabled takes no click.                               *)
(***************************************************************************)
Put(map, k, v) == [x \in DOMAIN map \cup {k} |-> IF x = k THEN v ELSE map[x]]

Remove(map, k) == [x \in DOMAIN map \ {k} |-> map[x]]

\* courseName.toLowerCase().replace(/[^a-z0-9]/g, '_')
RECURSIVE ReplaceNonAlnum(_)
ReplaceNonAlnum(s) ==
    IF s = "" THEN ""
    ELSE (IF Head(s) \in DOMAIN LowerIndex \/ IsDigit(Head(s)) THEN Head(s) ELSE "_")
         \o ReplaceNonAlnum(Tail(s))

generateCourseId(name) == ReplaceNonAlnum(toLowerCase(name))

\* `${sectionIndex}-${lessonIndex}`
LessonId(sectionIndex, lessonIndex) == ToString(sectionIndex) \o "-" \o ToString(lessonIndex)

\* courseStructure.reduce((sum, section) => sum + section.lessons.length, 0)
RECURSIVE TotalLessons(_)
TotalLessons(structure) ==
    IF structure = <<>> THEN 0
    ELSE Len(Head(structure).lessons) + TotalLessons(Tail(structure))

\* courseStructure[sectionIndex].lessons[lessonIndex] is a lesson
IsLesson(structure, sectionIndex, lessonIndex) ==
    /\ sectionIndex \in 0..(Len(structure) - 1)
    /\ lessonIndex \in 0..(Len(structure[sectionIndex + 1].lessons) - 1)

LessonAt(structure, sectionIndex, lessonIndex) ==
    structure[sectionIndex + 1].lessons[lessonIndex + 1]

\* the percentage updateProgressBar writes into the progress bar
updateProgressBar(structure, completed) ==
    Percentage(Cardinality(completed), TotalLessons(structure))

\* localStorage after saveCourseLibrary()
saveCourseLibrary(storage, library) ==
    [storage EXCEPT !.course_library =
        [id \in DOMAIN library |-> [name         |-> library[id].name,
                                    addedDate    |-> library[id].addedDate,
                                    lastAccessed |-> library[id].lastAccessed]]]

ProgressData(name, completed, totalLessons) ==
    [courseName       |-> name,
     completedLessons |-> completed,
     completedCount   |-> Cardinality(completed),
     totalLessons     |-> totalLessons,
     percentage       |-> Percentage(Cardinality(completed), totalLessons)]

\* variant: the progress is not written
saveCourseProgressNever(storage, courseId, name, structure, completed) == storage

\* localStorage after saveCourseProgress(courseId)
saveCourseProgress(storage, courseId, name, structure, completed) ==
    [storage EXCEPT !.course_progress =
        Put(@, courseId, ProgressData(name, completed, TotalLessons(structure)))]

\* the completion set loadCourseProgress(courseId) installs
loadCourseProgress(storage, courseId) ==
    IF courseId \in DOMAIN storage.course_progress
    THEN storage.course_progress[courseId].completedLessons
    ELSE {}

\* localStorage after saveLastSession(), currentLesson being a lesson
saveLastSession(storage, courseId, structure, sectionIndex, lessonIndex) ==
    IF courseId = Null THEN storage
    ELSE [storage EXCEPT
            !.last_session =
                Put(@, courseId,
                    [sectionIndex |-> sectionIndex,
                     lessonIndex  |-> lessonIndex,
                     lessonName   |-> LessonAt(structure, sectionIndex, lessonIndex).name]),
            !.last_course_id = courseId]

\* loadLastSessionForCourse(courseId), and lesson (0, 0) of
\* showLessonContent when there is no record
ResumePoint(storage, courseId) ==
    IF courseId \in DOMAIN storage.last_session
    THEN [sectionIndex |-> storage.last_session[courseId].sectionIndex,
          lessonIndex  |-> storage.last_session[courseId].lessonIndex]
    ELSE [sectionIndex |-> 0, lessonIndex |-> 0]

\* what a listing holds, whatever the order of its entries
ContentsOf(dirHandle) ==
    {[name     |-> dirHandle.children[i].name,
      kind     |-> dirHandle.children[i].kind,
      children |-> {[name |-> dirHandle.children[i].children[k].name,
                     kind |-> dirHandle.children[i].children[k].kind] :
                       k \in DOMAIN dirHandle.children[i].children}] :
        i \in DOMAIN dirHandle.children}

\* the scan history after a scan of the folder that read the listing and
\* ended with r
Scanned(history, folder, dirHandle, r) ==
    Append(history, [folder |-> folder, contents |-> ContentsOf(dirHandle), result |-> r])

Event(op, outcome, modals) == [op |-> op, outcome |-> outcome, modals |-> modals]

(***************************************************************************)
(* The video player of renderLessonContent                                 *)
(***************************************************************************)
\* seconds before the end from which a saved position is not restored
ResumeMargin == 5

\* videoPlayer.duration (seconds) of a long and of a short video
LongVideo == 7

ShortVideo == 6

\* the videos of a section whose name has one letter are long, the others short
VideoDuration(rawName) == IF Len(cleanSectionName(rawName)) = 1 THEN LongVideo ELSE ShortVideo

\* the positions (seconds) a timeupdate may report: 1..MaxPosition
MaxPosition == 1

Positions == 1..MaxPosition

\* timeupdate events in a behaviour
MaxUpdates == 1

\* lesson.files.find(f => f.type === 'video')
VideoFile(lesson) ==
    lesson.files[CHOOSE i \in DOMAIN lesson.files :
                    /\ lesson.files[i].type = "video"
                    /\ \A k \in 1..(i - 1) : lesson.files[k].type # "video"]

\* this.videoProgress[this.currentCourseId]?.[lessonId] || 0
SavedTime(progress, courseId, lessonId) ==
    IF courseId \in DOMAIN progress /\ lessonId \in DOMAIN progress[courseId]
    THEN progress[courseId][lessonId]
    ELSE 0

\* where the player stands once its metadata is loaded
RestoredTime(savedTime, duration) ==
    IF savedTime > 0 /\ savedTime < duration - ResumeMargin THEN savedTime ELSE 0

\* videoFile.handle.getFile() finds the file: the folder still has the
\* section directory with a file of this name
FileOnDisk(folders, folder, rawName, filename) ==
    \E i \in DOMAIN folders[folder].children :
       /\ folders[folder].children[i].kind = "directory"
       /\ folders[folder].children[i].name = rawName
       /\ \E k \in DOMAIN folders[folder].children[i].children :
             /\ folders[folder].children[i].children[k].kind = "file"
             /\ folders[folder].children[i].children[k].name = filename

\* the player renderLessonContent sets up: the lesson identifier its
\* listeners hold, the video it shows, and where it starts
PlayerOf(lessonId, video, savedTime) ==
    [lessonId |-> lessonId, video |-> video,
     startTime |-> RestoredTime(savedTime, VideoDuration(video[2]))]

\* the video <<folder, section, file>> that renderLessonContent(lesson) reads
VideoOf(folder, structure, sectionIndex, lessonIndex) ==
    <<folder, structure[sectionIndex + 1].rawName,
      VideoFile(LessonAt(structure, sectionIndex, lessonIndex)).name>>

\* lesson.files.find(f => f.type === 'subtitle'): its name, "" when the
\* lesson has none
SubtitleName(lesson) ==
    IF \E i \in DOMAIN lesson.files : lesson.files[i].type = "subtitle"
    THEN lesson.files[CHOOSE i \in DOMAIN lesson.files :
                         /\ lesson.files[i].type = "subtitle"
                         /\ \A k \in 1..(i - 1) : lesson.files[k].type # "subtitle"].name
    ELSE ""

\* the video element that stands in the lesson body while its render waits
\* for the subtitle file: it has no listener yet
Unwired(video) == [lessonId |-> Null, video |-> video, startTime |-> 0]

\* the player has its timeupdate listener, and the button of its overlay
\* the listener that calls markCompleteAndNext
Wired == player.lessonId # Null

\* the lesson items renderCourseNavigation() puts into the sidebar, and
\* renderMobileCourseNav() into the lesson body
LessonItems(structure) ==
    UNION {{[sectionIndex |-> s - 1, lessonIndex |-> l - 1] :
               l \in DOMAIN structure[s].lessons} : s \in DOMAIN structure}

\* the buttons of the mobile controls, which stand in the lesson body with
\* the video element
MobileButtons == {"mobilePrevBtn", "mobileNextBtn"}

\* the one of the buttons prevBtn and nextBtn that gets "disabled = true"
\* for the lesson: the first for the first lesson of the course, the second
\* for the last lesson of the last section
WithoutLesson(structure, lesson, prevBtn, nextBtn) ==
    (IF lesson.sectionIndex > 0 \/ lesson.lessonIndex > 0 THEN {} ELSE {prevBtn})
    \cup (IF \/ lesson.sectionIndex < Len(structure) - 1
             \/ lesson.lessonIndex < Len(structure[lesson.sectionIndex + 1].lessons) - 1
          THEN {}
          ELSE {nextBtn})

\* the disabled buttons after loadLesson has emptied the lesson body and
\* called updateNavigationButtons()
updateNavigationButtons(structure, lesson) ==
    WithoutLesson(structure, lesson, "prevLessonBtn", "nextLessonBtn")

\* the disabled buttons after renderLessonContent has put the mobile
\* controls into the lesson body and setupMobileControls() has called
\* updateMobileNavigationButtons()
updateMobileNavigationButtons(structure, lesson) ==
    (disabled \ MobileButtons)
    \cup WithoutLesson(structure, lesson, "mobilePrevBtn", "mobileNextBtn")

\* the lesson body holds the video element and the mobile controls
MobileControls == player.video # <<>>

(***************************************************************************)
(* Tasks                                                                   *)
(***************************************************************************)
\* handlers that wait at an await at a time
MaxTasks == 2

Without(ts, i) == SubSeq(ts, 1, i - 1) \o SubSeq(ts, i + 1, Len(ts))

\* the handler tasks[i] goes on to wait as t
Waiting(ts, i, t) == Append(Without(ts, i), t)

\* the awaits on the handle store that write, and all of them
StoreWrites == {"saveHandle", "saveHandleLib", "deleteHandle"}

StoreRequests == StoreWrites \cup {"getHandle"}

\* the handle store may answer the request of tasks[i]: no request made
\* before it waits, unless both only read
Answerable(i) ==
    \A j \in 1..(i - 1) :
       tasks[j].pc \in StoreRequests => tasks[j].pc = "getHandle" /\ tasks[i].pc = "getHandle"

\* the lesson body is overwritten: the video element of a render that waits
\* for its subtitle file is no longer in the document
Detached(ts) ==
    [i \in DOMAIN ts |->
        IF ts[i].pc = "getSubtitle" THEN [ts[i] EXCEPT !.detached = TRUE] ELSE ts[i]]

\* init() has gone on: the listeners of the buttons are attached.  An
\* init() that was rejected stays in tasks as a handler that never goes on.
Ready == \A i \in DOMAIN tasks : tasks[i].pc \notin {"init", "rejected"}

\* the awaits of showModal after which the handler goes on
Dialogs == {"confirm", "errorDialog", "selectDialog"}

\* the library, in memory and persisted, and the session
LibraryAndSession ==
    [library          |-> courseLibrary,
     stored           |-> localStorage.course_library,
     currentCourseId  |-> currentCourseId,
     courseName       |-> courseName,
     directoryHandle  |-> directoryHandle,
     courseStructure  |-> courseStructure,
     completedLessons |-> completedLessons]

\* openCourse / addCourse at "await window.showDirectoryPicker()"
PickerTask(op, shouldOpen) ==
    [NoTask EXCEPT !.pc = "picker", !.op = op, !.shouldOpen = shouldOpen]

\* loadCourse / loadCourseFromLibrary at "await this.parseCourseStructure(folder)"
ScanTask(op, shouldOpen, courseId, folder, before) ==
    [NoTask EXCEPT !.pc = "scan", !.op = op, !.shouldOpen = shouldOpen,
                   !.courseId = courseId, !.folder = folder, !.before = before]

\* renderLessonContent(lesson) at "await videoFile.handle.getFile()"
FileTask(video, subtitle, awaited) ==
    [NoTask EXCEPT !.pc = "getFile", !.op = "renderLessonContent", !.video = video,
                   !.subtitle = subtitle, !.awaited = awaited]

\* loadCourseFromLibrary at "await this.showModal(..., 'Error')" of its catch block
ErrorDialog(courseId) ==
    [NoTask EXCEPT !.pc = "errorDialog", !.op = "loadCourseFromLibrary",
                   !.courseId = courseId]

\* the loads that have scanned or may still scan
ScansStarted ==
    Len(scans)
    + Cardinality({i \in DOMAIN tasks :
                      tasks[i].pc \in {"picker", "scan", "getHandle", "access",
                                       "selectDialog", "select", "saveHandleLib"}})

(***************************************************************************)
(* The folders of the model and what they may hold                         *)
(***************************************************************************)
\* scans in a behaviour
MaxScans == 2

FolderNames == {"Web 1", "Go"}

VideoSection(name, files) == DirEntry(name, [i \in DOMAIN files |-> FileEntry(files[i])])

OneLesson == <<VideoSection("1. s", <<"1.a.mp4">>)>>

\* two lessons whose file names, and ordinals "01" and "1", compare equal
TiedLessons == <<VideoSection("1. s", <<"01.a.mp4", "1.a.mp4">>)>>

TwoSections ==
    <<VideoSection("1. s", <<"1.a.mp4">>), VideoSection("2. tt", <<"1.b.mp4", "1.b.vtt">>)>>

FolderContents(folder) ==
    IF folder = "Web 1"
    THEN {DirEntry(folder, c) : c \in {TiedLessons, OneLesson}}
    ELSE {DirEntry(folder, c) : c \in {TwoSections, <<>>}}

\* the folders when the page is opened
InstalledFolders ==
    [folder \in FolderNames |->
        DirEntry(folder, IF folder = "Web 1" THEN TiedLessons ELSE TwoSections)]

\* folders that differ from the installed ones in a behaviour
MaxEdits == 1

Edited(folders) == {folder \in FolderNames : folders[folder] # InstalledFolders[folder]}

\* showDirectoryPicker() rejects with this when the user cancels
Aborted == "AbortError"

\* showDirectoryPicker() rejects with another error
Refused == "SecurityError"

\* what the folder picker answers: a folder, or one of the rejections
PickerResults == FolderNames \cup {Aborted, Refused}

\* what a stored handle answers: access, no permission (the prompt is
\* declined), or an exception (the handle is stale)
HandleAnswers == {"granted", "denied", "stale"}

\* the page runs in a browser with or without the File System Access API;
\* the names of the folders of the model sort alike in every locale
AppRuntimes == [locale : {"en-US"}, directoryPicker : BOOLEAN]

\* times the page is loaded in a behaviour
MaxPageLoads == 2

\* events in a behaviour: clicks on the page, reports of the player, page
\* loads, changes on disk and failures of the handle store; the answers to
\* what the handlers await, the clicks that answer a dialog among them, are
\* not counted
MaxEvents == 4

\* an event arrives
Arrives == eventsLeft > 0 /\ eventsLeft' = eventsLeft - 1

\* a request to the handle store fails: its onerror fires and the await of
\* the request throws
Fails == Arrives

Init ==
    /\ PureIdle /\ runtime \in AppRuntimes /\ disk = InstalledFolders /\ FreshProfile
    /\ eventsLeft = MaxEvents

(***************************************************************************)
(* The scan of a folder.  parseCourseStructure lists the root and then,    *)
(* in sorted order, each section, with an await at every entry: the        *)
(* iterator of a directory yields an entry the directory holds and has not *)
(* yielded yet, ends when there is none, and throws a NotFoundError when   *)
(* the directory is gone.  What a scan reads between two changes of its    *)
(* folder depends on nothing else and nothing else depends on it, so the   *)
(* entries are not read in steps of their own: a step that changes the     *)
(* folder chooses how far the scans of the folder have read, and the step  *)
(* in which a scan ends reads what is left.                                *)
(***************************************************************************)
EntryNames(entries) == {entries[i].name : i \in DOMAIN entries}

\* the entries of a directory that its iterator has not yielded
NotYielded(children, yielded) ==
    {children[i] : i \in {j \in DOMAIN children : children[j].name \notin EntryNames(yielded)}}

\* the directory of this name in the folder: none when it is gone
DirectoriesNamed(dirHandle, name) ==
    {dirHandle.children[i] :
        i \in {j \in DOMAIN dirHandle.children :
                  /\ dirHandle.children[j].kind = "directory"
                  /\ dirHandle.children[j].name = name}}

\* the scan has listed every section of the root, or has failed
ScanEnded(read) ==
    \/ read.failed
    \/ read.rootDone /\ Len(read.sections) = Len(read.entries)

\* the entries of this kind among those an iterator has yielded, sorted
\* when it has ended
SortedOf(yielded, kind) == {SortByName(kept) : kept \in {SelectKind(yielded, kind)}}

\* one more answer of the iterator the scan stands at, the folder holding
\* dirHandle: what the scan may have read after it
ReadNext(read, dirHandle) ==
    IF ScanEnded(read) THEN {}
    ELSE IF ~read.rootDone
    THEN IF NotYielded(dirHandle.children, read.root) # {}
         THEN {[read EXCEPT !.root = Append(@, [entry EXCEPT !.children = <<>>])] :
                  entry \in NotYielded(dirHandle.children, read.root)}
         ELSE {[read EXCEPT !.rootDone = TRUE, !.root = <<>>, !.entries = entries] :
                  entries \in SortedOf(read.root, "directory")}
    ELSE LET name == read.entries[Len(read.sections) + 1].name
             found == DirectoriesNamed(dirHandle, name)
             rest == UNION {NotYielded(entry.children, read.files) : entry \in found}
         IN  IF found = {} THEN {[read EXCEPT !.failed = TRUE]}
             ELSE IF rest # {}
             THEN {[read EXCEPT !.files = Append(@, lessonEntry)] : lessonEntry \in rest}
             ELSE {[read EXCEPT !.sections = Append(@, DirEntry(name, read.files)),
                                !.files = <<>>]}

\* what a scan that has read one of reads may have read when it has gone
\* on for a while, the folder holding dirHandle
RECURSIVE ReadOn(_, _)
ReadOn(reads, dirHandle) ==
    IF reads = {} THEN {}
    ELSE reads \cup UNION {ReadOn(more, dirHandle) :
                              more \in {UNION {ReadNext(read, dirHandle) : read \in reads}}}

\* what the scan of the task t may have read when it ends now
ScansEnding(t) == {read \in ReadOn({t.read}, disk[t.folder]) : ScanEnded(read)}

\* the listing a scan has kept of what it read: the directories of the
\* root, those it has listed with their files
ListingRead(folder, read) ==
    DirEntry(folder,
             [i \in DOMAIN read.entries |->
                 IF i <= Len(read.sections) THEN read.sections[i] ELSE read.entries[i]])

\* the iterator of a section has thrown
NotFound == [error |-> "NotFoundError", structure |-> <<>>]

\* what "await this.parseCourseStructure(folder)" gives or throws
ScanResult(folder, read) ==
    IF read.failed THEN NotFound ELSE parseCourseStructure(ListingRead(folder, read))

\* lessonEntries.sort(...): the sections listed in full hold their files,
\* sorted.  parseCourseStructure sorts them again, which changes nothing,
\* so that only a scan that is kept waiting needs them sorted here.
LessonEntriesSorted(read) ==
    [read EXCEPT !.sections =
        [k \in DOMAIN @ |->
            DirEntry(@[k].name, SortByName(SelectKind(@[k].children, "file")))]]

\* the handlers as a change of the folder finds them: every scan of the
\* folder has read on for a while in what the folder held
ScansOvertaken(folder) ==
    SeqProduct([i \in DOMAIN tasks |->
                   IF tasks[i].pc = "scan" /\ tasks[i].folder = folder
                   THEN {[tasks[i] EXCEPT !.read = LessonEntriesSorted(read)] :
                            read \in ReadOn({tasks[i].read}, disk[folder])}
                   ELSE {tasks[i]}])

\* the contents of a folder change on disk
ModifyDirectory ==
    /\ Arrives
    /\ \E folder \in FolderNames :
          \E c \in FolderContents(folder) \ {disk[folder]} :
             /\ Cardinality(Edited([disk EXCEPT ![folder] = c])) <= MaxEdits
             /\ disk' = [disk EXCEPT ![folder] = c]
             /\ tasks' \in ScansOvertaken(folder)
    /\ UNCHANGED <<viewerVars, pageVars, clock, event, historyVars, pureVars>>

(***************************************************************************)
(* The page is loaded                                                      *)
(***************************************************************************)
\* the Map loadCourseLibrary() builds from the stored library
loadCourseLibrary(storage) ==
    [id \in DOMAIN storage.course_library |->
        [name         |-> storage.course_library[id].name,
         handle       |-> Null,
         addedDate    |-> storage.course_library[id].addedDate,
         lastAccessed |-> storage.course_library[id].lastAccessed]]

\* the handle store once the write of the task t has landed
Landed(handles, t) ==
    IF t.pc \in {"saveHandle", "saveHandleLib"} THEN Put(handles, t.courseId, t.folder)
    ELSE IF t.pc = "deleteHandle" THEN Remove(handles, t.courseId)
    ELSE handles

\* the handle store after the writes of the first n tasks have landed
RECURSIVE LandedAll(_, _, _)
LandedAll(handles, ts, n) ==
    IF n = 0 THEN handles ELSE Landed(LandedAll(handles, ts, n - 1), ts[n])

\* the user loads the page again: the handlers that wait are gone with the
\* old page (the writes to the handle store that were under way have landed
\* up to one of them), and the script runs "new CourseViewer()" and
\* loadVideoProgress() on what the profile holds
reload ==
    /\ Arrives
    /\ pageLoads < MaxPageLoads
    /\ pageLoads' = pageLoads + 1
    /\ \E n \in 0..Len(tasks) : handleDB' = LandedAll(handleDB, tasks, n)
    /\ directoryHandle' = Null
    /\ courseStructure' = <<>>
    /\ structureOf' = Null
    /\ currentLesson' = NoLesson
    /\ completedLessons' = {}
    /\ courseName' = ""
    /\ courseLibrary' = EmptyMap
    /\ currentCourseId' = Null
    /\ videoProgress' = localStorage.video_progress
    /\ shouldAutoPlay' = FALSE
    /\ view' = "home"
    /\ progressBar' = 0
    /\ player' = NoPlayer
    /\ cards' = {}
    /\ lessonItems' = {}
    /\ disabled' = {}
    /\ mobileNav' = {}
    /\ tasks' = <<InitTask>>
    /\ event' = NoEvent
    /\ UNCHANGED <<disk, localStorage, clock, scans, recorded, updates, pureVars>>

\* init() goes on after its awaits: loadCourseLibrary(), loadLastSession()
\* (which changes nothing), attachEventListeners(), renderHomepage().  When
\* the handle store cannot be opened, "await this.handleDB.init()" throws
\* and init() is rejected: nothing of this runs.
init ==
    /\ \E i \in DOMAIN tasks :
          /\ tasks[i].pc = "init"
          /\ \/ /\ UNCHANGED eventsLeft
                /\ tasks' = Without(tasks, i)
                /\ courseLibrary' = loadCourseLibrary(localStorage)
                /\ cards' = DOMAIN courseLibrary'
             \/ /\ Fails
                /\ tasks' = [tasks EXCEPT ![i].pc = "rejected"]
                /\ UNCHANGED <<courseLibrary, cards>>
    /\ event' = NoEvent
    /\ UNCHANGED <<disk, directoryHandle, courseStructure, currentLesson, completedLessons,
                   courseName, currentCourseId, videoProgress, shouldAutoPlay, localStorage,
                   handleDB, view, progressBar, player, lessonItems, controls, clock, historyVars,
                   pureVars>>

(***************************************************************************)
(* loadLesson and renderLessonContent                                      *)
(***************************************************************************)
\* loadLesson(sectionIndex, lessonIndex) up to "await
\* videoFile.handle.getFile()", with localStorage being storage and the
\* other tasks ts: the lesson body is emptied and the render waits for its
\* file; awaited tells that the caller awaits loadLesson.  The previous
\* and the next button are disabled when the lesson is the first or the
\* last of the structure.  When the structure has no such lesson,
\* loadLesson throws a TypeError: on the section before currentLesson is
\* set, on the lesson after it, in both cases before it comes to the
\* buttons.
LoadLessonAt(storage, ts, folder, structure, sectionIndex, lessonIndex, awaited) ==
    IF IsLesson(structure, sectionIndex, lessonIndex)
    THEN /\ currentLesson' = [sectionIndex |-> sectionIndex, lessonIndex |-> lessonIndex]
         /\ localStorage' =
               saveLastSession(storage, currentCourseId, structure, sectionIndex, lessonIndex)
         /\ disabled' =
               updateNavigationButtons(structure, [sectionIndex |-> sectionIndex,
                                                   lessonIndex  |-> lessonIndex])
         /\ player' = NoPlayer
         /\ mobileNav' = {}
         /\ tasks' = Append(Detached(ts),
                            FileTask(VideoOf(folder, structure, sectionIndex, lessonIndex),
                                     SubtitleName(LessonAt(structure, sectionIndex,
                                                           lessonIndex)),
                                     awaited))
    ELSE /\ currentLesson' =
               IF sectionIndex \in 0..(Len(structure) - 1)
               THEN [sectionIndex |-> sectionIndex, lessonIndex |-> lessonIndex]
               ELSE currentLesson
         /\ localStorage' = storage
         /\ tasks' = ts
         /\ UNCHANGED <<player, controls>>

\* a click on one of the lesson items: loadLesson(sectionIndex, lessonIndex)
\* with the indices the item was rendered with
LessonClicked(items) ==
    /\ Arrives
    /\ view = "course"
    /\ Len(tasks) < MaxTasks
    /\ \E at \in items :
          LoadLessonAt(localStorage, tasks, structureOf, courseStructure,
                       at.sectionIndex, at.lessonIndex, FALSE)
    /\ event' = NoEvent
    /\ UNCHANGED <<disk, directoryHandle, courseStructure, completedLessons, courseName,
                   courseLibrary, currentCourseId, videoProgress, shouldAutoPlay, handleDB,
                   view, progressBar, cards, lessonItems, clock, historyVars, pureVars>>

\* a click on a lesson item of the sidebar
loadLesson ==
    /\ lessonItems # {}
    /\ LessonClicked(lessonItems)

\* a click on a lesson item of the mobile course navigation
mobileCourseNav ==
    /\ mobileNav # {}
    /\ LessonClicked(mobileNav)

\* loadLesson has returned: a loadCourseFromLibrary that awaited it shows
\* the lesson screen
RenderEnded(awaited) ==
    IF awaited
    THEN /\ view' = "course"
         /\ event' = Event("loadCourseFromLibrary", "opened", <<>>)
    ELSE /\ event' = NoEvent
         /\ UNCHANGED view

\* the catch block of renderLessonContent: the lesson body shows the error
\* in place of what it held
RenderFailed(ts, awaited) ==
    /\ player' = NoPlayer
    /\ disabled' = disabled \ MobileButtons
    /\ mobileNav' = {}
    /\ tasks' = Detached(ts)
    /\ RenderEnded(awaited)
    /\ UNCHANGED shouldAutoPlay

\* renderLessonContent from the video player on (lines 771-824): the
\* listeners are attached to the video element the render made, whether it
\* is still in the document or not, and the flag is reset
PlayerWired(ts, lessonId, video, savedTime, detached, awaited) ==
    /\ player' = IF detached THEN player ELSE PlayerOf(lessonId, video, savedTime)
    /\ shouldAutoPlay' = FALSE
    /\ tasks' = ts
    /\ RenderEnded(awaited)

\* renderLessonContent(lesson) from the result of getFile() on, for the
\* task t = tasks[i]: lessonId and savedTime are read from currentLesson,
\* currentCourseId and videoProgress as they are now, the lesson body gets
\* the video element, and the render waits for the subtitle file when the
\* lesson has one.  With the video element the lesson body gets the mobile
\* course navigation, rendered from courseStructure, and the mobile
\* controls.  setupMobileControls() ends in
\* updateMobileNavigationButtons(), which reads the lessons of the section
\* of currentLesson unless a later section exists: it throws a TypeError
\* when courseStructure has no such section, and the catch block takes over.
MobileRendered ==
    /\ mobileNav' = LessonItems(courseStructure)
    /\ disabled' = updateMobileNavigationButtons(courseStructure, currentLesson)

renderLessonContent(i, t) ==
    IF ~FileOnDisk(disk, t.video[1], t.video[2], t.video[3])
    THEN RenderFailed(Without(tasks, i), t.awaited)
    ELSE IF currentLesson.sectionIndex >= Len(courseStructure)
    THEN RenderFailed(Without(tasks, i), t.awaited)
    ELSE IF t.subtitle # ""
    THEN /\ player' = Unwired(t.video)
         /\ MobileRendered
         /\ tasks' = Append(Detached(Without(tasks, i)),
                        [t EXCEPT !.pc = "getSubtitle",
                                  !.lessonId = LessonId(currentLesson.sectionIndex,
                                                        currentLesson.lessonIndex),
                                  !.savedTime =
                                      SavedTime(videoProgress, currentCourseId,
                                                LessonId(currentLesson.sectionIndex,
                                                         currentLesson.lessonIndex))])
         /\ event' = NoEvent
         /\ UNCHANGED <<shouldAutoPlay, view>>
    ELSE /\ MobileRendered
         /\ PlayerWired(Detached(Without(tasks, i)),
                        LessonId(currentLesson.sectionIndex, currentLesson.lessonIndex),
                        t.video,
                        SavedTime(videoProgress, currentCourseId,
                                  LessonId(currentLesson.sectionIndex,
                                           currentLesson.lessonIndex)),
                        FALSE, t.awaited)

\* getFile() on the video file of a render is answered
videoFileRead ==
    /\ UNCHANGED eventsLeft
    /\ \E i \in DOMAIN tasks :
          /\ tasks[i].pc = "getFile"
          /\ renderLessonContent(i, tasks[i])
    /\ UNCHANGED <<disk, directoryHandle, courseStructure, currentLesson, completedLessons,
                   courseName, courseLibrary, currentCourseId, videoProgress, localStorage,
                   handleDB, progressBar, cards, lessonItems, clock, historyVars, pureVars>>

\* getFile() on the subtitle file of a render is answered
subtitleFileRead ==
    /\ UNCHANGED eventsLeft
    /\ \E i \in DOMAIN tasks :
          /\ tasks[i].pc = "getSubtitle"
          /\ IF FileOnDisk(disk, tasks[i].video[1], tasks[i].video[2], tasks[i].subtitle)
             THEN /\ PlayerWired(Without(tasks, i), tasks[i].lessonId, tasks[i].video,
                                 tasks[i].savedTime, tasks[i].detached, tasks[i].awaited)
                  /\ UNCHANGED controls
             ELSE RenderFailed(Without(tasks, i), tasks[i].awaited)
    /\ UNCHANGED <<disk, directoryHandle, courseStructure, currentLesson, completedLessons,
                   courseName, courseLibrary, currentCourseId, videoProgress, localStorage,
                   handleDB, progressBar, cards, lessonItems, clock, historyVars, pureVars>>

(***************************************************************************)
(* openCourse, addCourse and loadCourse                                    *)
(***************************************************************************)
\* openCourse and addCourse up to "await window.showDirectoryPicker()"
BeginLoadCourse(op, shouldOpen) ==
    /\ IF runtime.directoryPicker
       THEN /\ tasks' = Append(tasks, PickerTask(op, shouldOpen))
            /\ event' = Event(op, "picking", <<>>)
       ELSE /\ event' = Event(op, "unsupported", <<"Browser Not Supported">>)
            /\ UNCHANGED tasks
    /\ UNCHANGED <<disk, viewerVars, pageVars, clock, historyVars, pureVars>>

\* the header button: pick a folder and open it
openCourse ==
    /\ Arrives
    /\ view = "home"
    /\ Ready
    /\ Len(tasks) < MaxTasks
    /\ ScansStarted < MaxScans
    /\ BeginLoadCourse("openCourse", TRUE)

\* the get-started button: pick a folder and add it to the library
addCourse ==
    /\ Arrives
    /\ view = "home"
    /\ Ready
    /\ Len(tasks) < MaxTasks
    /\ ScansStarted < MaxScans
    /\ BeginLoadCourse("addCourse", FALSE)

\* variant: the catch block of openCourse and addCourse does not test for AbortError
FolderPickedAbortFails(i, t, picked) ==
    IF picked \in {Aborted, Refused}
    THEN /\ tasks' = Without(tasks, i)
         /\ event' = Event(t.op, picked, <<"Error">>)
         /\ UNCHANGED <<directoryHandle, courseName, currentCourseId>>
    ELSE /\ directoryHandle' = picked
         /\ courseName' = picked
         /\ currentCourseId' = generateCourseId(picked)
         /\ tasks' = Waiting(tasks, i, ScanTask("loadCourse", t.shouldOpen, Null, picked,
                                                LibraryAndSession))
         /\ event' = Event(t.op, "scanning", <<>>)

\* openCourse / addCourse from the answer of the folder picker up to the
\* await of parseCourseStructure in loadCourse, or through their catch
\* block; t = tasks[i]
FolderPicked(i, t, picked) ==
    IF picked = Aborted
    THEN /\ tasks' = Without(tasks, i)
         /\ event' = Event(t.op, Aborted, <<>>)
         /\ UNCHANGED <<directoryHandle, courseName, currentCourseId>>
    ELSE IF picked = Refused
    THEN /\ tasks' = Without(tasks, i)
         /\ event' = Event(t.op, Refused, <<"Error">>)
         /\ UNCHANGED <<directoryHandle, courseName, currentCourseId>>
    ELSE /\ directoryHandle' = picked
         /\ courseName' = picked
         /\ currentCourseId' = generateCourseId(picked)
         /\ tasks' = Waiting(tasks, i, ScanTask("loadCourse", t.shouldOpen, Null, picked,
                                                LibraryAndSession))
         /\ event' = Event(t.op, "scanning", <<>>)

\* the folder picker of an openCourse or addCourse is answered
folderPicked ==
    /\ UNCHANGED eventsLeft
    /\ \E i \in DOMAIN tasks :
          /\ tasks[i].pc = "picker"
          /\ \E picked \in PickerResults : FolderPicked(i, tasks[i], picked)
    /\ UNCHANGED <<disk, courseStructure, currentLesson, completedLessons, courseLibrary,
                   videoProgress, shouldAutoPlay, pageVars, clock, historyVars, pureVars>>

\* loadCourse(shouldOpen) from the result r of parseCourseStructure, which
\* has read dirHandle, up to "await
\* this.handleDB.saveHandle(this.currentCourseId, this.directoryHandle)",
\* or through its catch block; t = tasks[i]
LoadCourseWith(i, t, dirHandle, r) ==
    /\ scans' = Scanned(scans, t.folder, dirHandle, r)
    /\ IF r.error # "none"
       THEN /\ tasks' = Without(tasks, i)
            /\ event' = Event("loadCourse", r.error, <<"Error">>)
            /\ UNCHANGED <<courseStructure, completedLessons, structureOf>>
       ELSE /\ courseStructure' = r.structure
            /\ structureOf' = t.folder
            /\ completedLessons' = loadCourseProgress(localStorage, currentCourseId)
            /\ tasks' = Waiting(tasks, i, [t EXCEPT !.pc = "saveHandle",
                                                    !.courseId = currentCourseId,
                                                    !.folder = directoryHandle,
                                                    !.read = NothingRead])
            /\ event' = Event("loadCourse", "saving", <<>>)
    /\ UNCHANGED <<disk, directoryHandle, currentLesson, courseName, courseLibrary,
                   currentCourseId, videoProgress, shouldAutoPlay, pageVars, clock,
                   recorded, updates, pageLoads, pureVars>>

\* the scan of a loadCourse ends and loadCourse goes on
loadCourse ==
    /\ UNCHANGED eventsLeft
    /\ \E i \in DOMAIN tasks :
          /\ tasks[i].pc = "scan"
          /\ tasks[i].op = "loadCourse"
          /\ \E read \in ScansEnding(tasks[i]) :
                \E dirHandle \in {ListingRead(tasks[i].folder, read)} :
                   \E r \in {ScanResult(tasks[i].folder, read)} :
                      LoadCourseWith(i, tasks[i], dirHandle, r)

\* loadCourse(shouldOpen) from the answer of saveHandle on: the library
\* entry is set under currentCourseId as it is now, and the course is opened
\* (showLessonContent calls loadLesson(0, 0) without awaiting it) or the
\* dialog "Course Added" is shown
SaveCourse(i, t) ==
    /\ handleDB' = Landed(handleDB, t)
    /\ courseLibrary' = Put(courseLibrary, currentCourseId,
                            [name         |-> courseName,
                             handle       |-> directoryHandle,
                             addedDate    |-> clock,
                             lastAccessed |-> clock])
    /\ clock' = clock + 1
    /\ IF t.shouldOpen
       THEN /\ lessonItems' = LessonItems(courseStructure)
            /\ progressBar' = updateProgressBar(courseStructure, completedLessons)
            /\ IF IsLesson(courseStructure, 0, 0)
               THEN LoadLessonAt(saveCourseLibrary(localStorage, courseLibrary'),
                                 Without(tasks, i), structureOf, courseStructure, 0, 0, FALSE)
               ELSE /\ localStorage' = saveCourseLibrary(localStorage, courseLibrary')
                    /\ tasks' = Without(tasks, i)
                    /\ UNCHANGED <<currentLesson, player, controls>>
            /\ view' = "course"
            /\ event' = Event("loadCourse", "opened", <<>>)
            /\ UNCHANGED cards
       ELSE /\ localStorage' = saveCourseLibrary(localStorage, courseLibrary')
            /\ cards' = DOMAIN courseLibrary'
            /\ tasks' = Without(tasks, i)
            /\ event' = Event("loadCourse", "added", <<"Course Added">>)
            /\ UNCHANGED <<currentLesson, view, progressBar, player, lessonItems, controls>>
    /\ UNCHANGED <<disk, directoryHandle, courseStructure, completedLessons, courseName,
                   currentCourseId, videoProgress, shouldAutoPlay, historyVars, pureVars>>

\* the saveHandle of a loadCourse has failed: the catch block of loadCourse
\* shows its dialog
SaveCourseFailed(i) ==
    /\ tasks' = Without(tasks, i)
    /\ event' = Event("loadCourse", "not saved", <<"Error">>)
    /\ UNCHANGED <<disk, viewerVars, pageVars, clock, historyVars, pureVars>>

\* the handle store has answered the saveHandle of a loadCourse
courseHandleSaved ==
    \E i \in DOMAIN tasks :
       /\ tasks[i].pc = "saveHandle"
       /\ Answerable(i)
       /\ \/ UNCHANGED eventsLeft /\ SaveCourse(i, tasks[i])
          \/ Fails /\ SaveCourseFailed(i)

(***************************************************************************)
(* loadCourseFromLibrary                                                   *)
(***************************************************************************)
\* a click on a course card of the homepage: loadCourseFromLibrary(courseId)
\* up to "await this.handleDB.getHandle(courseId)"
loadCourseFromLibrary ==
    /\ Arrives
    /\ view = "home"
    /\ Len(tasks) < MaxTasks
    /\ ScansStarted < MaxScans
    /\ \E courseId \in cards :
          IF courseId \in DOMAIN courseLibrary
          THEN /\ tasks' = Append(tasks,
                              [NoTask EXCEPT !.pc = "getHandle",
                                             !.op = "loadCourseFromLibrary",
                                             !.courseId = courseId,
                                             !.name = courseLibrary[courseId].name,
                                             !.entry = courseLibrary[courseId].addedDate])
               /\ event' = Event("loadCourseFromLibrary", "asking", <<>>)
          ELSE /\ event' = Event("loadCourseFromLibrary", "no course", <<>>)
               /\ UNCHANGED tasks
    /\ UNCHANGED <<disk, viewerVars, pageVars, clock, historyVars, pureVars>>

\* the catch block of loadCourseFromLibrary up to its await of the error
\* dialog; t = tasks[i]
LibraryLoadFailed(i, t, modals) ==
    /\ tasks' = Waiting(tasks, i, ErrorDialog(t.courseId))
    /\ event' = Event("loadCourseFromLibrary", "failed", modals)

\* the handle store has answered the getHandle of a loadCourseFromLibrary:
\* with a handle the handler asks for access, without one it asks the user
\* to select the folder again, and when the request has failed the catch
\* block takes over
handleRead ==
    /\ \E i \in DOMAIN tasks :
          /\ tasks[i].pc = "getHandle"
          /\ Answerable(i)
          /\ \/ /\ UNCHANGED eventsLeft
                /\ IF tasks[i].courseId \in DOMAIN handleDB
                   THEN /\ tasks' = Waiting(tasks, i,
                                       [tasks[i] EXCEPT
                                           !.pc = "access",
                                           !.folder = handleDB[tasks[i].courseId]])
                        /\ event' = Event("loadCourseFromLibrary", "checking", <<>>)
                   ELSE /\ tasks' = Waiting(tasks, i,
                                            [tasks[i] EXCEPT !.pc = "selectDialog"])
                        /\ event' = Event("loadCourseFromLibrary", "selecting",
                                          <<"Select Course Folder">>)
             \/ /\ Fails
                /\ LibraryLoadFailed(i, tasks[i], <<"Error">>)
    /\ UNCHANGED <<disk, viewerVars, pageVars, clock, historyVars, pureVars>>

\* courseData.handle = handle; courseData.lastAccessed = Date.now(),
\* courseData being the entry the handler got at its click: the entry of
\* the Map when that is still the one added at added
Touched(library, courseId, added, handle) ==
    IF courseId \in DOMAIN library /\ library[courseId].addedDate = added
    THEN [library EXCEPT ![courseId].handle = handle, ![courseId].lastAccessed = clock]
    ELSE library

\* loadCourseFromLibrary(courseId) from "this.courseName = courseData.name"
\* up to the await of parseCourseStructure(this.directoryHandle), handle
\* being this.directoryHandle and t = tasks[i]
ScanFromLibrary(i, t, handle, before, modals) ==
    /\ courseName' = t.name
    /\ currentCourseId' = t.courseId
    /\ courseLibrary' = Touched(courseLibrary, t.courseId, t.entry, handle)
    /\ clock' = clock + 1
    /\ localStorage' = saveCourseLibrary(localStorage, courseLibrary')
    /\ tasks' = Waiting(tasks, i,
                        ScanTask("loadCourseFromLibrary", TRUE, t.courseId, handle, before))
    /\ event' = Event("loadCourseFromLibrary", "scanning", modals)

\* the handler ends before the course is touched
LoadAbandoned(i, outcome, modals) ==
    /\ tasks' = Without(tasks, i)
    /\ event' = Event("loadCourseFromLibrary", outcome, modals)
    /\ UNCHANGED <<courseName, currentCourseId, courseLibrary, localStorage, clock>>

\* variant: the entry is marked as accessed before the permission is asked
AccessAnsweredTouchedFirst(i, t, answer) ==
    IF answer = "denied"
    THEN /\ courseLibrary' = [courseLibrary EXCEPT ![t.courseId].lastAccessed = clock]
         /\ clock' = clock + 1
         /\ localStorage' = saveCourseLibrary(localStorage, courseLibrary')
         /\ tasks' = Without(tasks, i)
         /\ event' = Event("loadCourseFromLibrary", "denied", <<"Permission Denied">>)
         /\ UNCHANGED <<directoryHandle, courseName, currentCourseId>>
    ELSE IF answer = "granted"
    THEN /\ directoryHandle' = t.folder
         /\ ScanFromLibrary(i, t, t.folder, LibraryAndSession, <<>>)
    ELSE /\ tasks' = Waiting(tasks, i, [t EXCEPT !.pc = "selectDialog", !.folder = Null])
         /\ event' = Event("loadCourseFromLibrary", "selecting", <<"Select Course Folder">>)
         /\ UNCHANGED <<directoryHandle, courseName, currentCourseId, courseLibrary,
                        localStorage, clock>>

\* loadCourseFromLibrary(courseId) from the answer of the stored handle on:
\* with access the handler goes on to the scan, without permission it ends,
\* and on an exception it asks the user to select the folder again
AccessAnswered(i, t, answer) ==
    IF answer = "denied"
    THEN /\ LoadAbandoned(i, "denied", <<"Permission Denied">>)
         /\ UNCHANGED directoryHandle
    ELSE IF answer = "granted"
    THEN /\ directoryHandle' = t.folder
         /\ ScanFromLibrary(i, t, t.folder, LibraryAndSession, <<>>)
    ELSE /\ tasks' = Waiting(tasks, i, [t EXCEPT !.pc = "selectDialog", !.folder = Null])
         /\ event' = Event("loadCourseFromLibrary", "selecting", <<"Select Course Folder">>)
         /\ UNCHANGED <<directoryHandle, courseName, currentCourseId, courseLibrary,
                        localStorage, clock>>

\* the stored handle of a loadCourseFromLibrary has answered
accessAnswered ==
    /\ UNCHANGED eventsLeft
    /\ \E i \in DOMAIN tasks :
          /\ tasks[i].pc = "access"
          /\ \E answer \in HandleAnswers : AccessAnswered(i, tasks[i], answer)
    /\ UNCHANGED <<disk, courseStructure, currentLesson, completedLessons, videoProgress,
                   shouldAutoPlay, handleDB, view, progressBar, player, cards, lessonItems,
                   controls, historyVars, pureVars>>

\* loadCourseFromLibrary(courseId) from the answer of the folder picker up
\* to "await this.handleDB.saveHandle(courseId, this.directoryHandle)", or
\* to its end; t = tasks[i]
FolderSelected(i, t, picked) ==
    IF picked = Aborted
    THEN /\ tasks' = Without(tasks, i)
         /\ event' = Event("loadCourseFromLibrary", Aborted, <<>>)
         /\ UNCHANGED directoryHandle
    ELSE IF picked = Refused
    THEN /\ LibraryLoadFailed(i, t, <<"Error">>)
         /\ UNCHANGED directoryHandle
    ELSE IF picked # t.name
    THEN /\ directoryHandle' = picked
         /\ tasks' = Without(tasks, i)
         /\ event' = Event("loadCourseFromLibrary", "wrong folder", <<"Wrong Folder">>)
    ELSE /\ directoryHandle' = picked
         /\ tasks' = Waiting(tasks, i, [t EXCEPT !.pc = "saveHandleLib", !.folder = picked,
                                                 !.before = LibraryAndSession])
         /\ event' = Event("loadCourseFromLibrary", "saving", <<>>)

\* the folder picker of a loadCourseFromLibrary is answered
folderSelected ==
    /\ UNCHANGED eventsLeft
    /\ \E i \in DOMAIN tasks :
          /\ tasks[i].pc = "select"
          /\ \E picked \in PickerResults : FolderSelected(i, tasks[i], picked)
    /\ UNCHANGED <<disk, courseStructure, currentLesson, completedLessons, courseName,
                   courseLibrary, currentCourseId, videoProgress, shouldAutoPlay, pageVars,
                   clock, historyVars, pureVars>>

\* the handle store has answered the saveHandle of a loadCourseFromLibrary:
\* the handler goes on to the scan of this.directoryHandle as it is now, or
\* to its catch block when the request has failed
libraryHandleSaved ==
    /\ \E i \in DOMAIN tasks :
          /\ tasks[i].pc = "saveHandleLib"
          /\ Answerable(i)
          /\ \/ /\ UNCHANGED eventsLeft
                /\ handleDB' = Landed(handleDB, tasks[i])
                /\ ScanFromLibrary(i, tasks[i], directoryHandle, tasks[i].before, <<>>)
             \/ /\ Fails
                /\ LibraryLoadFailed(i, tasks[i], <<"Error">>)
                /\ UNCHANGED <<handleDB, courseName, currentCourseId, courseLibrary,
                               localStorage, clock>>
    /\ UNCHANGED <<disk, directoryHandle, courseStructure, currentLesson, completedLessons,
                   videoProgress, shouldAutoPlay, view, progressBar, player, cards,
                   lessonItems, controls, historyVars, pureVars>>

\* the end of loadCourseFromLibrary: loadLesson on the lesson of the
\* last-session record, awaited, or showLessonContent when there is none;
\* ts are the other tasks
ResumeLesson(ts, courseId, folder, structure) ==
    IF courseId \notin DOMAIN localStorage.last_session
    THEN /\ IF IsLesson(structure, 0, 0)
            THEN LoadLessonAt(localStorage, ts, folder, structure, 0, 0, FALSE)
            ELSE /\ tasks' = ts
                 /\ UNCHANGED <<currentLesson, localStorage, player, controls>>
         /\ view' = "course"
         /\ event' = Event("loadCourseFromLibrary", "opened", <<>>)
    ELSE IF IsLesson(structure, ResumePoint(localStorage, courseId).sectionIndex,
                     ResumePoint(localStorage, courseId).lessonIndex)
    THEN /\ LoadLessonAt(localStorage, ts, folder, structure,
                         ResumePoint(localStorage, courseId).sectionIndex,
                         ResumePoint(localStorage, courseId).lessonIndex, TRUE)
         /\ event' = Event("loadCourseFromLibrary", "rendering", <<>>)
         /\ UNCHANGED view
    ELSE /\ LoadLessonAt(localStorage, Append(ts, ErrorDialog(courseId)), folder, structure,
                         ResumePoint(localStorage, courseId).sectionIndex,
                         ResumePoint(localStorage, courseId).lessonIndex, TRUE)
         /\ event' = Event("loadCourseFromLibrary", "failed", <<"Error">>)
         /\ UNCHANGED view

\* loadCourseFromLibrary(courseId) from the result r of
\* parseCourseStructure, which has read dirHandle, on; t = tasks[i]
OpenFromLibrary(i, t, dirHandle, r) ==
    /\ scans' = Scanned(scans, t.folder, dirHandle, r)
    /\ IF r.error # "none"
       THEN /\ LibraryLoadFailed(i, t, <<"Error">>)
            /\ UNCHANGED <<courseStructure, completedLessons, currentLesson, localStorage,
                           view, progressBar, player, lessonItems, controls, structureOf>>
       ELSE /\ courseStructure' = r.structure
            /\ structureOf' = t.folder
            /\ completedLessons' = loadCourseProgress(localStorage, t.courseId)
            /\ lessonItems' = LessonItems(r.structure)
            /\ progressBar' = updateProgressBar(r.structure, completedLessons')
            /\ ResumeLesson(Without(tasks, i), t.courseId, t.folder, r.structure)
    /\ UNCHANGED <<disk, directoryHandle, courseName, courseLibrary, currentCourseId,
                   videoProgress, shouldAutoPlay, handleDB, cards, clock, recorded, updates,
                   pageLoads, pureVars>>

\* the scan of a loadCourseFromLibrary ends and the handler goes on
libraryCourseScanned ==
    /\ UNCHANGED eventsLeft
    /\ \E i \in DOMAIN tasks :
          /\ tasks[i].pc = "scan"
          /\ tasks[i].op = "loadCourseFromLibrary"
          /\ \E read \in ScansEnding(tasks[i]) :
                \E dirHandle \in {ListingRead(tasks[i].folder, read)} :
                   \E r \in {ScanResult(tasks[i].folder, read)} :
                      OpenFromLibrary(i, tasks[i], dirHandle, r)

(***************************************************************************)
(* The lesson screen                                                       *)
(***************************************************************************)
\* variant: marking a lesson complete forgets the lessons completed before
toggleLessonCompleteFromScratch ==
    /\ Arrives
    /\ view = "course"
    /\ currentLesson # NoLesson
    /\ completedLessons' =
          IF LessonId(currentLesson.sectionIndex, currentLesson.lessonIndex) \in completedLessons
          THEN completedLessons \ {LessonId(currentLesson.sectionIndex, currentLesson.lessonIndex)}
          ELSE {LessonId(currentLesson.sectionIndex, currentLesson.lessonIndex)}
    /\ localStorage' = saveCourseProgress(localStorage, currentCourseId, courseName,
                                          courseStructure, completedLessons')
    /\ progressBar' = updateProgressBar(courseStructure, completedLessons')
    /\ event' = NoEvent
    /\ UNCHANGED <<disk, directoryHandle, courseStructure, currentLesson, courseName,
                   courseLibrary, currentCourseId, videoProgress, shouldAutoPlay, handleDB,
                   view, player, cards, lessonItems, controls, tasks, clock, historyVars,
                   pureVars>>

\* the mark-complete button
toggleLessonComplete ==
    /\ Arrives
    /\ view = "course"
    /\ currentLesson # NoLesson
    /\ completedLessons' =
          IF LessonId(currentLesson.sectionIndex, currentLesson.lessonIndex) \in completedLessons
          THEN completedLessons \ {LessonId(currentLesson.sectionIndex, currentLesson.lessonIndex)}
          ELSE completedLessons
                  \cup {LessonId(currentLesson.sectionIndex, currentLesson.lessonIndex)}
    /\ localStorage' = saveCourseProgress(localStorage, currentCourseId, courseName,
                                          courseStructure, completedLessons')
    /\ progressBar' = updateProgressBar(courseStructure, completedLessons')
    /\ event' = NoEvent
    /\ UNCHANGED <<disk, directoryHandle, courseStructure, currentLesson, courseName,
                   courseLibrary, currentCourseId, videoProgress, shouldAutoPlay, handleDB,
                   view, player, cards, lessonItems, controls, tasks, clock, historyVars,
                   pureVars>>

\* variant: from the first lesson of a section, the previous button goes to
\* the first lesson of the section before
NavigateTargetFirstOfPrevious(structure, sectionIndex, lessonIndex, direction) ==
    IF lessonIndex + direction < 0
    THEN IF sectionIndex > 0 /\ sectionIndex - 1 < Len(structure)
         THEN [sectionIndex |-> sectionIndex - 1, lessonIndex |-> 0]
         ELSE NoLesson
    ELSE IF sectionIndex >= Len(structure)
    THEN NoLesson
    ELSE IF lessonIndex + direction >= Len(structure[sectionIndex + 1].lessons)
    THEN IF sectionIndex < Len(structure) - 1
         THEN [sectionIndex |-> sectionIndex + 1, lessonIndex |-> 0]
         ELSE NoLesson
    ELSE [sectionIndex |-> sectionIndex, lessonIndex |-> lessonIndex + direction]

\* the lesson navigateLesson(direction) loads; NoLesson when it returns
\* early, or throws a TypeError because the structure has no section at the
\* index it reads
NavigateTarget(structure, sectionIndex, lessonIndex, direction) ==
    IF lessonIndex + direction < 0
    THEN IF sectionIndex > 0 /\ sectionIndex - 1 < Len(structure)
         THEN [sectionIndex |-> sectionIndex - 1,
               lessonIndex  |-> Len(structure[sectionIndex].lessons) - 1]
         ELSE NoLesson
    ELSE IF sectionIndex >= Len(structure)
    THEN NoLesson
    ELSE IF lessonIndex + direction >= Len(structure[sectionIndex + 1].lessons)
    THEN IF sectionIndex < Len(structure) - 1
         THEN [sectionIndex |-> sectionIndex + 1, lessonIndex |-> 0]
         ELSE NoLesson
    ELSE [sectionIndex |-> sectionIndex, lessonIndex |-> lessonIndex + direction]

\* navigateLesson(direction) with localStorage being storage
NavigateFrom(storage, target) ==
    IF target = NoLesson
    THEN /\ localStorage' = storage
         /\ UNCHANGED <<currentLesson, player, controls, tasks>>
    ELSE LoadLessonAt(storage, tasks, structureOf, courseStructure,
                      target.sectionIndex, target.lessonIndex, FALSE)

\* navigateLesson(direction) from a click on a button of the lesson screen
navigateLesson(direction) ==
    /\ Arrives
    /\ view = "course"
    /\ currentLesson # NoLesson
    /\ Len(tasks) < MaxTasks
    /\ NavigateFrom(localStorage,
                    NavigateTarget(courseStructure, currentLesson.sectionIndex,
                                   currentLesson.lessonIndex, direction))
    /\ event' = NoEvent
    /\ UNCHANGED <<disk, directoryHandle, courseStructure, completedLessons, courseName,
                   courseLibrary, currentCourseId, videoProgress, shouldAutoPlay, handleDB,
                   view, progressBar, cards, lessonItems, clock, historyVars, pureVars>>

\* the previous button, unless it is disabled
prevLessonBtn ==
    /\ "prevLessonBtn" \notin disabled
    /\ navigateLesson(-1)

\* the next button, unless it is disabled
nextLessonBtn ==
    /\ "nextLessonBtn" \notin disabled
    /\ navigateLesson(1)

\* the mark-complete button of the mobile controls
mobileMarkCompleteBtn ==
    /\ MobileControls
    /\ toggleLessonComplete

\* the previous button of the mobile controls, unless it is disabled
mobilePrevBtn ==
    /\ MobileControls
    /\ "mobilePrevBtn" \notin disabled
    /\ navigateLesson(-1)

\* the next button of the mobile controls, unless it is disabled
mobileNextBtn ==
    /\ MobileControls
    /\ "mobileNextBtn" \notin disabled
    /\ navigateLesson(1)

\* the button of the overlay the player shows when its video has ended
markCompleteAndNext ==
    /\ Arrives
    /\ view = "course"
    /\ Wired
    /\ currentLesson # NoLesson
    /\ Len(tasks) < MaxTasks
    /\ completedLessons' =
          completedLessons \cup {LessonId(currentLesson.sectionIndex, currentLesson.lessonIndex)}
    /\ progressBar' =
          IF completedLessons' # completedLessons
          THEN updateProgressBar(courseStructure, completedLessons')
          ELSE progressBar
    /\ shouldAutoPlay' = TRUE
    /\ NavigateFrom(IF completedLessons' # completedLessons
                    THEN saveCourseProgress(localStorage, currentCourseId, courseName,
                                            courseStructure, completedLessons')
                    ELSE localStorage,
                    NavigateTarget(courseStructure, currentLesson.sectionIndex,
                                   currentLesson.lessonIndex, 1))
    /\ event' = NoEvent
    /\ UNCHANGED <<disk, directoryHandle, courseStructure, courseName, courseLibrary,
                   currentCourseId, videoProgress, handleDB, view, cards, lessonItems, clock,
                   historyVars, pureVars>>

\* the timeupdate listener of the player: the video stands at position t
RecordPosition(t) ==
    /\ videoProgress' =
          Put(videoProgress, currentCourseId,
              Put(IF currentCourseId \in DOMAIN videoProgress
                  THEN videoProgress[currentCourseId] ELSE EmptyMap,
                  player.lessonId, t))
    /\ localStorage' = [localStorage EXCEPT !.video_progress = videoProgress']
    /\ recorded' = Put(recorded, player.video, t)
    /\ event' = NoEvent

\* the player, shown or hidden behind the homepage, reports its position
timeupdate ==
    /\ Arrives
    /\ Wired
    /\ updates < MaxUpdates
    /\ updates' = updates + 1
    /\ \E t \in Positions : RecordPosition(t)
    /\ UNCHANGED <<disk, directoryHandle, courseStructure, currentLesson, completedLessons,
                   courseName, courseLibrary, currentCourseId, shouldAutoPlay, handleDB,
                   view, progressBar, player, cards, lessonItems, controls, tasks, clock, scans,
                   structureOf, pageLoads, pureVars>>

(***************************************************************************)
(* The homepage                                                            *)
(***************************************************************************)
\* the home button of the header, which every screen shows: the homepage
\* is shown and rendered
goHome ==
    /\ Arrives
    /\ Ready
    /\ view' = "home"
    /\ cards' = DOMAIN courseLibrary
    /\ event' = NoEvent
    /\ UNCHANGED <<disk, viewerVars, localStorage, handleDB, progressBar, player,
                   lessonItems, controls, tasks, clock, historyVars, pureVars>>

\* the delete button of a course card: deleteCourse(courseId) up to the
\* await of the confirm dialog
deleteCourse ==
    /\ Arrives
    /\ view = "home"
    /\ Len(tasks) < MaxTasks
    /\ \E courseId \in cards :
          tasks' = Append(tasks, [NoTask EXCEPT !.pc = "confirm", !.op = "deleteCourse",
                                                !.courseId = courseId])
    /\ event' = Event("deleteCourse", "asking", <<"Delete Course">>)
    /\ UNCHANGED <<disk, viewerVars, pageVars, clock, historyVars, pureVars>>

\* what the handlers that go on from a dialog read and write, and the
\* handlers that wait again
DialogState ==
    [library |-> courseLibrary, storage |-> localStorage, cards |-> cards,
     waiting |-> <<>>, event |-> event]

\* deleteCourse(courseId) from the answer of the confirm dialog up to
\* "await this.handleDB.deleteHandle(courseId)", or to its end
DeleteAnswered(s, t, confirmed) ==
    IF confirmed
    THEN [s EXCEPT
             !.library = Remove(@, t.courseId),
             !.storage = [saveCourseLibrary(s.storage, Remove(s.library, t.courseId)) EXCEPT
                             !.course_progress = Remove(@, t.courseId),
                             !.last_session = Remove(@, t.courseId)],
             !.waiting = Append(@, [t EXCEPT !.pc = "deleteHandle"]),
             !.event = Event("deleteCourse", "confirmed", <<>>)]
    ELSE [s EXCEPT !.event = Event("deleteCourse", "cancelled", <<>>)]

\* the catch block of loadCourseFromLibrary from its error dialog on: the
\* course is deleted from the library and the homepage is rendered
ErrorClosed(s, t) ==
    [s EXCEPT !.library = Remove(@, t.courseId),
              !.storage = saveCourseLibrary(s.storage, Remove(s.library, t.courseId)),
              !.cards = DOMAIN Remove(s.library, t.courseId),
              !.event = Event("loadCourseFromLibrary", "removed", <<>>)]

\* loadCourseFromLibrary(courseId) from the dialog "Select Course Folder"
\* up to "await window.showDirectoryPicker()"; in a window without
\* showDirectoryPicker the call throws a TypeError, and the handler goes on
\* through its catch block up to the await of the error dialog, which this
\* click does not answer
SelectClosed(s, t) ==
    IF runtime.directoryPicker
    THEN [s EXCEPT !.waiting = Append(@, [t EXCEPT !.pc = "select"]),
                   !.event = Event("loadCourseFromLibrary", "picking", <<>>)]
    ELSE [s EXCEPT !.waiting = Append(@, ErrorDialog(t.courseId)),
                   !.event = Event("loadCourseFromLibrary", "failed", <<"Error">>)]

\* the handler t goes on from its dialog, which resolves to confirmed
DialogAnswered(s, t, confirmed) ==
    CASE t.pc = "confirm" -> DeleteAnswered(s, t, confirmed)
      [] t.pc = "errorDialog" -> ErrorClosed(s, t)
      [] t.pc = "selectDialog" -> SelectClosed(s, t)

\* the handlers ts go on one after the other, in the order in which their
\* dialogs were shown
RECURSIVE DialogsAnswered(_, _, _)
DialogsAnswered(s, ts, confirmed) ==
    IF ts = <<>> THEN s
    ELSE DialogsAnswered(DialogAnswered(s, Head(ts), confirmed), Tail(ts), confirmed)

\* the tasks of ts that wait at a dialog, and the others, in the order of ts
RECURSIVE AtDialog(_, _)
AtDialog(ts, wanted) ==
    IF ts = <<>> THEN <<>>
    ELSE (IF (Head(ts).pc \in Dialogs) = wanted THEN <<Head(ts)>> ELSE <<>>)
         \o AtDialog(Tail(ts), wanted)

\* a click on a button of the dialog, or beside the dialog: every dialog
\* that is awaited resolves, to confirmed, and its handler goes on
ModalClosed(confirmed) ==
    /\ \E i \in DOMAIN tasks : tasks[i].pc \in Dialogs
    /\ LET s == DialogsAnswered(DialogState, AtDialog(tasks, TRUE), confirmed)
       IN  /\ courseLibrary' = s.library
           /\ localStorage' = s.storage
           /\ cards' = s.cards
           /\ tasks' = AtDialog(tasks, FALSE) \o s.waiting
           /\ event' = s.event
    /\ UNCHANGED <<disk, directoryHandle, courseStructure, currentLesson, completedLessons,
                   courseName, currentCourseId, videoProgress, shouldAutoPlay, handleDB,
                   view, progressBar, player, lessonItems, controls, clock, historyVars, pureVars>>

\* a click on the confirm button of the dialog
handleConfirm ==
    /\ UNCHANGED eventsLeft
    /\ ModalClosed(TRUE)

\* a click on the cancel button of the dialog, or on the overlay beside it
handleCancel ==
    /\ UNCHANGED eventsLeft
    /\ ModalClosed(FALSE)

\* the handle store has answered the deleteHandle of a deleteCourse: the
\* homepage is rendered; when the request has failed the await throws and
\* deleteCourse, which has no catch block, ends
handleDeleted ==
    /\ \E i \in DOMAIN tasks :
          /\ tasks[i].pc = "deleteHandle"
          /\ Answerable(i)
          /\ tasks' = Without(tasks, i)
          /\ \/ /\ UNCHANGED eventsLeft
                /\ handleDB' = Landed(handleDB, tasks[i])
                /\ cards' = DOMAIN courseLibrary
                /\ event' = Event("deleteCourse", "deleted", <<>>)
             \/ /\ Fails
                /\ event' = Event("deleteCourse", "not deleted", <<>>)
                /\ UNCHANGED <<handleDB, cards>>
    /\ UNCHANGED <<disk, viewerVars, localStorage, view, progressBar, player, lessonItems, controls,
                   clock, historyVars, pureVars>>

Next ==
    \/ ModifyDirectory
    \/ reload
    \/ init
    \/ openCourse
    \/ addCourse
    \/ folderPicked
    \/ loadCourse
    \/ courseHandleSaved
    \/ loadCourseFromLibrary
    \/ handleRead
    \/ accessAnswered
    \/ folderSelected
    \/ libraryHandleSaved
    \/ libraryCourseScanned
    \/ loadLesson
    \/ videoFileRead
    \/ subtitleFileRead
    \/ toggleLessonComplete
    \/ prevLessonBtn
    \/ nextLessonBtn
    \/ markCompleteAndNext
    \/ mobileCourseNav
    \/ mobileMarkCompleteBtn
    \/ mobilePrevBtn
    \/ mobileNextBtn
    \/ timeupdate
    \/ goHome
    \/ deleteCourse
    \/ handleConfirm
    \/ handleCancel
    \/ handleDeleted

Spec == Init /\ [][Next]_vars

(***************************************************************************)
(* The lesson screen of a longer course: the page is opened with folders   *)
(* of up to three sections, one course is opened, and the user stays on    *)
(* its lesson screen.                                                      *)
(***************************************************************************)
ThreeSections ==
    <<VideoSection("1. s", <<"1.a.mp4", "2.b.mp4">>),
      VideoSection("2. tt", <<"1.c.mp4">>),
      VideoSection("3. u", <<"1.d.mp4", "2.e.mp4">>)>>

LessonFolders ==
    [folder \in FolderNames |->
        DirEntry(folder, IF folder = "Web 1" THEN ThreeSections ELSE TwoSections)]

\* events in a behaviour of the longer course
MaxLessonEvents == 6

InitLesson ==
    /\ PureIdle /\ runtime = UsualRuntime /\ disk = LessonFolders /\ FreshProfile
    /\ eventsLeft = MaxLessonEvents

NextLesson ==
    \/ init
    \/ openCourse
    \/ folderPicked
    \/ loadCourse
    \/ courseHandleSaved
    \/ loadLesson
    \/ videoFileRead
    \/ subtitleFileRead
    \/ toggleLessonComplete
    \/ prevLessonBtn
    \/ nextLessonBtn
    \/ markCompleteAndNext
    \/ mobileCourseNav
    \/ mobileMarkCompleteBtn
    \/ mobilePrevBtn
    \/ mobileNextBtn

SpecLesson == InitLesson /\ [][NextLesson]_vars

(***************************************************************************)
(* A course is scanned again: the user opens folders, marks lessons        *)
(* complete and goes back to the homepage while the folders change on      *)
(* disk.  The page is not loaded again, and nothing is opened from the     *)
(* library or deleted.                                                     *)
(***************************************************************************)
\* events in a behaviour of the courses that are scanned again
MaxRescanEvents == 5

InitRescan ==
    /\ PureIdle /\ runtime = UsualRuntime /\ disk = InstalledFolders /\ FreshProfile
    /\ eventsLeft = MaxRescanEvents

NextRescan ==
    \/ ModifyDirectory
    \/ init
    \/ openCourse
    \/ folderPicked
    \/ loadCourse
    \/ courseHandleSaved
    \/ videoFileRead
    \/ subtitleFileRead
    \/ toggleLessonComplete
    \/ markCompleteAndNext
    \/ goHome

SpecRescan == InitRescan /\ [][NextRescan]_vars

(***************************************************************************)
(* Properties of the builder (SpecBuilder)                                 *)
(***************************************************************************)
Returned == built.error = "none"

\* what the listing holds, read off the input
SectionDirs ==
    {listing.children[i] :
        i \in {j \in DOMAIN listing.children : listing.children[j].kind = "directory"}}

FileNamesIn(dir) ==
    {dir.children[i].name :
        i \in {j \in DOMAIN dir.children : dir.children[j].kind = "file"}}

VideoNamesIn(dir) == {n \in FileNamesIn(dir) : getFileType(n) = "video"}

SubtitleNamesIn(dir) == {n \in FileNamesIn(dir) : getFileType(n) = "subtitle"}

OtherNamesIn(dir) == FileNamesIn(dir) \ (VideoNamesIn(dir) \cup SubtitleNamesIn(dir))

NumbersOf(names) == {extractLessonNumber(n) : n \in names}

\* the ordinals of dir whose bucket holds subtitles only
DroppedNumbers(dir) == NumbersOf(SubtitleNamesIn(dir)) \ NumbersOf(VideoNamesIn(dir))

\* what the builder returned for a directory
SectionsFor(dir) ==
    {built.structure[i] :
        i \in {j \in DOMAIN built.structure : built.structure[j].rawName = dir.name}}

NumbersRetained(dir) ==
    UNION {{sec.lessons[k].number : k \in DOMAIN sec.lessons} : sec \in SectionsFor(dir)}

TypesOf(lesson) == [i \in DOMAIN lesson.files |-> lesson.files[i].type]

\* C1: for every section directory, the ordinals of the retained lesson
\* groups are exactly the ordinals that have a video file; every retained
\* group holds a video, and an ordinal with subtitles only is never retained.
C1_GroupRetainedIffVideo ==
    Returned =>
        /\ \A d \in SectionDirs : NumbersRetained(d) = NumbersOf(VideoNamesIn(d))
        /\ \A i \in DOMAIN built.structure :
              \A k \in DOMAIN built.structure[i].lessons :
                 "video" \in Range(TypesOf(built.structure[i].lessons[k]))

\* a returned structure for a section with a kept ordinal and a
\* subtitle-only ordinal
C1_Witness ==
    /\ Returned
    /\ \E d \in SectionDirs :
          /\ DroppedNumbers(d) # {}
          /\ NumbersRetained(d) # {}

\* C2: a returned structure is non-empty, holds no section without lessons,
\* and holds exactly the candidate sections that have a lesson group with a
\* video.
C2_SectionRetainedIffLessons ==
    Returned =>
        /\ Len(built.structure) > 0
        /\ \A i \in DOMAIN built.structure : Len(built.structure[i].lessons) > 0
        /\ {built.structure[i].rawName : i \in DOMAIN built.structure}
              = {d.name : d \in {x \in SectionDirs : VideoNamesIn(x) # {}}}

\* the directory with only notes.pdf is dropped, the directory with a video
\* and its subtitle gives the one section, with one lesson of two files
C2_Witness ==
    /\ Returned
    /\ \E d \in SectionDirs : FileNamesIn(d) = {"notes.pdf"}
    /\ \E d \in SectionDirs : FileNamesIn(d) = {"2.a.mp4", "2.a.vtt"}
    /\ Len(built.structure) = 1
    /\ Len(built.structure[1].lessons) = 1
    /\ TypesOf(built.structure[1].lessons[1]) = <<"video", "subtitle">>

\* C3: a root without subdirectories makes the builder fail with the
\* "no sections" error, whatever files the root holds.
C3_NoSectionsError ==
    (built # NotRun /\ SectionDirs = {}) =>
        (built.error = "NoSections" /\ built.structure = <<>>)

\* the builder ran on a root that holds a video file but no directory
C3_Witness ==
    /\ built # NotRun
    /\ SectionDirs = {}
    /\ \E i \in DOMAIN listing.children : getFileType(listing.children[i].name) = "video"

\* C4: a root with at least one subdirectory, none of which holds a video
\* file, makes the builder fail with the "no videos" error.
C4_NoVideosError ==
    (built # NotRun /\ SectionDirs # {} /\ \A d \in SectionDirs : VideoNamesIn(d) = {}) =>
        built.error = "NoVideos"

\* the builder ran on subdirectories that hold a subtitle but no video
C4_Witness ==
    /\ built # NotRun
    /\ SectionDirs # {}
    /\ \A d \in SectionDirs : VideoNamesIn(d) = {}
    /\ \E d \in SectionDirs : SubtitleNamesIn(d) # {}

\* C5: the builder returns the same result for every listing order of the
\* same directory contents.
C5_ListingOrderIrrelevant ==
    (built # NotRun /\ rebuilt # NotRun) => rebuilt = built

\* C9 as stated: hasNonVideoFiles is set exactly when the section holds a
\* file that is neither video nor subtitle, or a bucket was dropped for
\* lacking a video.
C9_FlagCountsDroppedBuckets ==
    Returned =>
        \A d \in SectionDirs : \A sec \in SectionsFor(d) :
            sec.hasNonVideoFiles <=> (OtherNamesIn(d) # {} \/ DroppedNumbers(d) # {})

\* C9 amended: hasNonVideoFiles is set exactly when the section holds a
\* file that is neither video nor subtitle.
C9_FlagIffOtherRoleFile ==
    Returned =>
        \A d \in SectionDirs : \A sec \in SectionsFor(d) :
            sec.hasNonVideoFiles <=> OtherNamesIn(d) # {}

\* a retained section with a dropped subtitle-only bucket and no other file
C9_Witness ==
    /\ Returned
    /\ \E d \in SectionDirs :
          /\ SectionsFor(d) # {}
          /\ DroppedNumbers(d) # {}
          /\ OtherNamesIn(d) = {}

SpecExampleFiles == {"2.a.mp4", "2.a.vtt", "3.b.vtt"}

\* C10: a section holding 2.a.mp4, 2.a.vtt and 3.b.vtt yields exactly one
\* lesson, ordinal "2", with the video before the subtitle, and its
\* hasNonVideoFiles flag stays unset.
C10_SubtitleOnlyBucketDropped ==
    built # NotRun =>
        \A d \in {x \in SectionDirs : FileNamesIn(x) = SpecExampleFiles} :
            /\ Returned
            /\ \E sec \in SectionsFor(d) :
                  /\ sec.lessons =
                        <<[number |-> "2",
                           name   |-> "a",
                           files  |-> <<[name |-> "2.a.mp4", type |-> "video"],
                                        [name |-> "2.a.vtt", type |-> "subtitle"]>>]>>
                  /\ sec.hasNonVideoFiles = FALSE

\* the builder ran on that section, listed with the subtitles first
C10_Witness ==
    /\ built # NotRun
    /\ \E d \in SectionDirs :
          /\ FileNamesIn(d) = SpecExampleFiles
          /\ d.children[1].name = "3.b.vtt"
          /\ d.children[2].name = "2.a.vtt"

(***************************************************************************)
(* Properties of the percentage (SpecPercent)                              *)
(***************************************************************************)
\* n / d rounded to the closest integer, halves upwards
RoundHalfUp(n, d) == (2 * n + d) \div (2 * d)

\* C8: the percentage is 0 for zero lessons and round(100 * completedCount /
\* totalLessons) otherwise.
C8_PercentageIsRounded ==
    percentage # NoPercentage =>
        percentage[1] = IF counts.totalLessons = 0 THEN 0
                     ELSE RoundHalfUp(100 * counts.completedCount, counts.totalLessons)

(***************************************************************************)
(* Properties of the course viewer (Spec)                                  *)
(***************************************************************************)
\* the (sectionIndex, lessonIndex) a structure gives to every lesson, a
\* lesson being a section directory and an ordinal
Assignment(structure) ==
    UNION {{[section      |-> structure[i].rawName,
             lesson       |-> structure[i].lessons[k].number,
             sectionIndex |-> i - 1,
             lessonIndex  |-> k - 1] : k \in DOMAIN structure[i].lessons} :
           i \in DOMAIN structure}

\* scans i and j are successive scans of one folder, which held the same
\* contents both times
SuccessiveScans(i, j) ==
    /\ i < j
    /\ scans[i].folder = scans[j].folder
    /\ scans[i].contents = scans[j].contents
    /\ \A k \in (i + 1)..(j - 1) : scans[k].folder # scans[i].folder

\* C6: two successive scans of a folder whose contents did not change give
\* every lesson the same (sectionIndex, lessonIndex).
C6_RescanKeepsLessonIdentifiers ==
    \A i, j \in DOMAIN scans :
        SuccessiveScans(i, j) =>
            Assignment(scans[i].result.structure) = Assignment(scans[j].result.structure)

\* C7: the percentage in the progress bar and every stored percentage is an
\* integer from 0 to 100, also when a course is scanned again (SpecRescan).
C7_PercentageInRange ==
    /\ progressBar \in 0..100
    /\ \A id \in DOMAIN localStorage.course_progress :
          localStorage.course_progress[id].percentage \in 0..100

(***************************************************************************)
(* Properties of the classifier (SpecClassifier)                           *)
(***************************************************************************)
\* the extension table of the specification
ExtensionRoles ==
    [mp4 |-> "video", vtt |-> "subtitle", pdf |-> "pdf", html |-> "html", txt |-> "text",
     zip |-> "archive", odp |-> "presentation"]

DotPositions(name) == {i \in 1..Len(name) : Ch(name, i) = "."}

\* a name has an extension when it has a dot: the text after the last one
HasExtension(name) == DotPositions(name) # {}

ExtensionOf(name) ==
    SubSeq(name, (CHOOSE i \in DotPositions(name) : \A k \in DotPositions(name) : k <= i) + 1,
           Len(name))

\* C17: the role of a file name is the entry of the extension table for its
\* extension, compared without regard to case (mp4 video, vtt subtitle, pdf,
\* html, txt text, zip archive, odp presentation); a name with an unmatched
\* extension, or with no dot at all, gets the fallback role "file", so it is
\* neither a video nor a subtitle.
C17_RoleFromExtension ==
    fileType # NoType =>
        IF HasExtension(candidate)
           /\ toLowerCase(ExtensionOf(candidate)) \in DOMAIN ExtensionRoles
        THEN fileType[1] = ExtensionRoles[toLowerCase(ExtensionOf(candidate))]
        ELSE fileType[1] = "file"

(***************************************************************************)
(* Properties of the sorter (SpecSorter)                                   *)
(***************************************************************************)
Listed == Range(nameList)

\* C18: naturalSort is a total order on names (two names compare as equal
\* only when they are the same name, a before b exactly when b after a,
\* transitive), digit runs compare by their numeric value ("2." before
\* "10."), and sorting a sorted list again leaves it unchanged.
C18_TotalOrderSortIdempotent ==
    /\ \A a, b \in Listed :
          /\ naturalSort(a, b) = 0 - naturalSort(b, a)
          /\ naturalSort(a, b) = 0 => a = b
    /\ \A a, b, c \in Listed :
          naturalSort(a, b) <= 0 /\ naturalSort(b, c) <= 0 => naturalSort(a, c) <= 0
    /\ {"2.a", "10.a"} \subseteq Listed => naturalSort("2.a", "10.a") < 0
    /\ sortedOnce # NotSorted =>
          \A i, j \in DOMAIN sortedOnce :
             i < j => naturalSort(sortedOnce[i], sortedOnce[j]) <= 0
    /\ sortedTwice # NotSorted => sortedTwice = sortedOnce

(***************************************************************************)
(* Properties of the loads of the course viewer (Spec)                     *)
(***************************************************************************)
\* the step in which a load gets the result of its scan, the builder having failed
BuildFailed(i) ==
    /\ loadCourse \/ libraryCourseScanned
    /\ scans'[Len(scans')].result.error # "none"
    /\ tasks[i].pc = "scan"
    /\ Without(tasks, i) = SubSeq(tasks', 1, Len(tasks) - 1)

\* C11: when the builder fails during loadCourse or loadCourseFromLibrary,
\* the course library (in memory and persisted) and the session (current
\* course id, course name, directory handle, course structure, completion
\* set) are what they were before the load was attempted.
C11_FailedLoadLeavesState ==
    [][\A i \in DOMAIN tasks :
          BuildFailed(i) => LibraryAndSession' = tasks[i].before]_vars

\* the step of a handler whose folder picker was cancelled
PickerCancelled ==
    /\ folderPicked \/ folderSelected
    /\ event'.outcome = Aborted

\* C12: when the user cancels the folder picker in openCourse, addCourse or
\* loadCourseFromLibrary, no error dialog is shown and the library, the
\* stored handles, localStorage and the session are unchanged.
C12_CancelledPickerIsNoOp ==
    [][PickerCancelled =>
          /\ event'.modals = <<>>
          /\ UNCHANGED <<viewerVars, pageVars>>]_vars

\* a library course with a loaded session, its picker cancelled
C12_Witness ==
    /\ event = Event("loadCourseFromLibrary", Aborted, <<>>)
    /\ courseStructure # <<>>
    /\ DOMAIN handleDB # {}

\* the step of loadCourseFromLibrary in which a folder of another name was picked
WrongFolderPicked ==
    /\ folderSelected
    /\ event'.outcome = "wrong folder"

\* C13: when the stored handle no longer resolves and the folder selected
\* instead has another name than the library course, the mismatch is
\* reported and the load abandoned: the course is not opened, the stored
\* handle and the library entry are not replaced, and the folder is not
\* put into the session.
C13_WrongFolderAbandoned ==
    [][WrongFolderPicked =>
          /\ "Wrong Folder" \in Range(event'.modals)
          /\ UNCHANGED <<viewerVars, pageVars>>]_vars

\* the step of loadCourseFromLibrary in which permission was not granted
PermissionDeclined ==
    /\ accessAnswered
    /\ event'.outcome = "denied"

\* C14: when permission on the stored handle is not granted and the prompt
\* is declined, the load is abandoned: the library metadata (entries,
\* names, addedDate, lastAccessed), in memory and stored, and the active
\* course are unchanged.
C14_DeclinedPermissionAbandons ==
    [][PermissionDeclined =>
          /\ event'.modals = <<"Permission Denied">>
          /\ UNCHANGED <<courseLibrary, localStorage, handleDB, directoryHandle, courseName,
                         currentCourseId, courseStructure, completedLessons, currentLesson,
                         view>>]_vars

\* permission declined for a course of the library while another session is loaded
C14_Witness ==
    /\ event = Event("loadCourseFromLibrary", "denied", <<"Permission Denied">>)
    /\ courseStructure # <<>>
    /\ \E id \in DOMAIN courseLibrary : courseLibrary[id].lastAccessed > 0

(***************************************************************************)
(* Properties of the progress of the course viewer (Spec)                  *)
(***************************************************************************)
\* the completion set stored for the course, none when it has no record
StoredCompletion(storage, courseId) ==
    IF courseId \in DOMAIN storage.course_progress
    THEN <<storage.course_progress[courseId].completedLessons>>
    ELSE <<>>

\* C15: after every toggleLessonComplete and markCompleteAndNext that
\* changes the completion set, the completion set stored for the current
\* course is the set in memory; after every timeupdate the stored position
\* map is the map in memory.
C15_MutationsFlushed ==
    [][/\ (toggleLessonComplete \/ markCompleteAndNext) /\ completedLessons' # completedLessons
          => StoredCompletion(localStorage', currentCourseId') = <<completedLessons'>>
       /\ timeupdate => localStorage'.video_progress = videoProgress']_vars

\* a lesson was completed and a position recorded, and both are stored
C15_Witness ==
    /\ view = "course"
    /\ completedLessons # {}
    /\ StoredCompletion(localStorage, currentCourseId) = <<completedLessons>>
    /\ videoProgress # EmptyMap
    /\ localStorage.video_progress = videoProgress

\* C16: there is no state in which the current course id names the course
\* of a load whose scan is pending while the structure and the completion
\* set in memory are those of the course loaded before.
C16_StructureReplacedBeforeScan ==
    \A i \in DOMAIN tasks :
       (/\ tasks[i].pc = "scan"
        /\ currentCourseId = generateCourseId(tasks[i].folder)
        /\ structureOf # Null)
       => generateCourseId(structureOf) = currentCourseId

\* the course of the deleteCourse that ends in this step
Deleted == {tasks[i].courseId : i \in {k \in DOMAIN tasks : tasks[k].pc = "deleteHandle"}}
              \ {tasks'[i].courseId : i \in {k \in DOMAIN tasks' : tasks'[k].pc = "deleteHandle"}}

\* C19: after a confirmed deleteCourse(courseId) the library entry, the
\* completion record, the last-session record, the stored handle and the
\* saved playback positions of the course are gone; a cancelled
\* deleteCourse changes nothing.
C19_DeleteRemovesAllProgress ==
    [][/\ handleDeleted =>
            \A id \in Deleted :
               /\ id \notin DOMAIN courseLibrary'
               /\ id \notin DOMAIN localStorage'.course_library
               /\ id \notin DOMAIN localStorage'.course_progress
               /\ id \notin DOMAIN localStorage'.last_session
               /\ id \notin DOMAIN handleDB'
               /\ id \notin DOMAIN videoProgress'
               /\ id \notin DOMAIN localStorage'.video_progress
       /\ (/\ handleCancel
           /\ \A i \in DOMAIN tasks : tasks[i].pc \in Dialogs => tasks[i].pc = "confirm") =>
            UNCHANGED <<viewerVars, pageVars>>]_vars

\* the position the video reported last, 0 when it never reported one
LastRecorded(video) == IF video \in DOMAIN recorded THEN recorded[video] ELSE 0

\* C20: when a lesson is loaded, its video starts at the position last
\* recorded for this video of this course if that position is greater than
\* 0 and more than 5 seconds before the end, and at 0 otherwise.
C20_ResumesRecordedPosition ==
    [][player' # player /\ player'.lessonId # Null =>
          player'.startTime = RestoredTime(LastRecorded(player'.video),
                                           VideoDuration(player'.video[2]))]_vars

(***************************************************************************)
(* Properties of the builder (SpecBuilder): lesson order, the "0" group,   *)
(* the three failures                                                      *)
(***************************************************************************)
\* C22: within every retained section the lessons stand in the natural
\* (numeric) order of their ordinals: for lesson indices i < j the ordinal
\* of i does not sort after the ordinal of j; and the lessons of a section
\* have pairwise distinct ordinal strings.
C22_LessonsOrderedByOrdinal ==
    Returned =>
        \A s \in DOMAIN built.structure :
            \A i, j \in DOMAIN built.structure[s].lessons :
                i < j =>
                    /\ naturalSort(built.structure[s].lessons[i].number,
                                   built.structure[s].lessons[j].number) <= 0
                    /\ built.structure[s].lessons[i].number #
                           built.structure[s].lessons[j].number

\* the builder returned a section of two lessons: the "0" group of the
\* unnumbered "b.mp4" first, then a lesson of ordinal "2" or "02"
C22_Witness ==
    /\ Returned
    /\ \E s \in DOMAIN built.structure :
          /\ Len(built.structure[s].lessons) = 2
          /\ built.structure[s].lessons[1].number = "0"
          /\ built.structure[s].lessons[1].files[1].name = "b.mp4"
          /\ built.structure[s].lessons[2].files[1].name \in {"2.a.mp4", "02.d.mp4"}

\* the video and subtitle files of dir whose name has no 'digits.' prefix
UnnumberedIn(dir) ==
    {n \in VideoNamesIn(dir) \cup SubtitleNamesIn(dir) : OrdinalPrefixLen(n) = 0}

\* the video and subtitle files of dir with ordinal "0"
ZeroFilesIn(dir) ==
    {n \in VideoNamesIn(dir) \cup SubtitleNamesIn(dir) : extractLessonNumber(n) = "0"}

\* the lessons with ordinal "0" the builder returned for dir
ZeroLessons(dir) ==
    UNION {{sec.lessons[k] : k \in {m \in DOMAIN sec.lessons : sec.lessons[m].number = "0"}} :
              sec \in SectionsFor(dir)}

\* the files of dir sorted by name, as the builder sorts this listing
SortedNamesIn(dir) ==
    LET sorted == SortByName(SelectKind(dir.children, "file"))
    IN  [i \in DOMAIN sorted |-> sorted[i].name]

\* the first name of the sorted sequence that is in the set
FirstOf(sorted, names) ==
    sorted[CHOOSE i \in DOMAIN sorted :
              /\ sorted[i] \in names
              /\ \A k \in 1..(i - 1) : sorted[k] \notin names]

FileNamesOf(lesson) == {lesson.files[i].name : i \in DOMAIN lesson.files}

\* the unnumbered files of dir are in one group "0", which is one lesson
\* when one of them is a video, and the player is given its first video
ZeroGroupOf(dir) ==
    /\ \A n \in UnnumberedIn(dir) : extractLessonNumber(n) = "0"
    /\ UnnumberedIn(dir) \cap VideoNamesIn(dir) # {} =>
          LET lessons == ZeroLessons(dir)
          IN  /\ Cardinality(lessons) = 1
              /\ \A lesson \in lessons :
                    /\ UnnumberedIn(dir) \subseteq FileNamesOf(lesson)
                    /\ VideoFile(lesson).name =
                          FirstOf(SortedNamesIn(dir),
                                  FileNamesOf(lesson) \cap VideoNamesIn(dir))

C25_InvalidFormatUnreachable ==
    /\ built.error # "InvalidFormat"
    /\ rebuilt.error # "InvalidFormat"
    /\ built # NotRun =>
          /\ built.error \in {"none", "NoSections", "NoVideos"}
          /\ (\E dir \in SectionDirs : VideoNamesIn(dir) # {}) =>
                /\ Returned
                /\ Len(built.structure) > 0

\* the builder returned although one of two subdirectories holds files
\* but no video, and was dropped
C25_Witness ==
    /\ Returned
    /\ Len(built.structure) = 1
    /\ \E dir \in SectionDirs : FileNamesIn(dir) # {} /\ VideoNamesIn(dir) = {}

(***************************************************************************)
(* Properties of the lesson screen (SpecLesson)                            *)
(***************************************************************************)
CurrentIsLesson ==
    /\ currentLesson # NoLesson
    /\ IsLesson(courseStructure, currentLesson.sectionIndex, currentLesson.lessonIndex)

LessonsOf(sectionIndex) == courseStructure[sectionIndex + 1].lessons

\* the lesson after currentLesson, currentLesson itself at the end of the course
LessonAfter ==
    IF currentLesson.lessonIndex < Len(LessonsOf(currentLesson.sectionIndex)) - 1
    THEN [sectionIndex |-> currentLesson.sectionIndex,
          lessonIndex  |-> currentLesson.lessonIndex + 1]
    ELSE IF currentLesson.sectionIndex < Len(courseStructure) - 1
    THEN [sectionIndex |-> currentLesson.sectionIndex + 1, lessonIndex |-> 0]
    ELSE currentLesson

\* the lesson before currentLesson, currentLesson itself at the start of the course
LessonBefore ==
    IF currentLesson.lessonIndex > 0
    THEN [sectionIndex |-> currentLesson.sectionIndex,
          lessonIndex  |-> currentLesson.lessonIndex - 1]
    ELSE IF currentLesson.sectionIndex > 0
    THEN [sectionIndex |-> currentLesson.sectionIndex - 1,
          lessonIndex  |-> Len(LessonsOf(currentLesson.sectionIndex - 1)) - 1]
    ELSE currentLesson

\* C21: from a current lesson of the structure, navigateLesson(+1) goes to
\* the next lesson of the section, or to lesson 0 of the next section from
\* the last lesson of a section; navigateLesson(-1) goes to the lesson
\* before, or to the last lesson of the section before; at the first lesson
\* of the course and at the last one the step changes neither the current
\* lesson nor the player; the current lesson stays a lesson of the
\* structure.  The steps are those of the buttons of both layouts and of
\* markCompleteAndNext, which calls navigateLesson(1) on the last lesson
\* too, where the buttons for the next lesson are disabled.
C21_NavigationStaysInStructure ==
    [][/\ (nextLessonBtn \/ mobileNextBtn \/ markCompleteAndNext) /\ CurrentIsLesson
          => currentLesson' = LessonAfter
       /\ (prevLessonBtn \/ mobilePrevBtn) /\ CurrentIsLesson
          => currentLesson' = LessonBefore
       /\ /\ nextLessonBtn \/ prevLessonBtn \/ mobileNextBtn \/ mobilePrevBtn
          /\ CurrentIsLesson
          /\ currentLesson' = currentLesson
          => UNCHANGED <<player, tasks, localStorage>>
       /\ markCompleteAndNext /\ CurrentIsLesson /\ currentLesson' = currentLesson
          => UNCHANGED <<player, tasks>>
       /\ /\ \/ nextLessonBtn \/ prevLessonBtn \/ mobileNextBtn \/ mobilePrevBtn
             \/ markCompleteAndNext
          /\ CurrentIsLesson
          => /\ courseStructure' = courseStructure
             /\ IsLesson(courseStructure', currentLesson'.sectionIndex,
                         currentLesson'.lessonIndex)]_vars

\* the lesson screen of the course of three sections shows the second
\* lesson of the first section, with every later lesson marked complete:
\* the user went forward through the last two sections, to the end of the
\* course, marking the lessons, and came back to this lesson
C21_Witness ==
    /\ view = "course"
    /\ Len(courseStructure) = 3
    /\ currentLesson = [sectionIndex |-> 0, lessonIndex |-> 1]
    /\ player.lessonId = "0-1"
    /\ completedLessons = {"1-0", "2-0", "2-1"}

CurrentLessonId == LessonId(currentLesson.sectionIndex, currentLesson.lessonIndex)

\* the set with the membership of one identifier flipped
Flipped(completed, lessonId) ==
    IF lessonId \in completed THEN completed \ {lessonId} ELSE completed \cup {lessonId}

\* C24: toggleLessonComplete flips the membership of the current lesson's
\* identifier in the completion set and of no other identifier, so that a
\* second toggle of the same lesson gives the original set back (the
\* toggle does not move the current lesson); markCompleteAndNext adds the
\* identifier of the lesson it was called on and removes none.
C24_ToggleFlipsCurrentLessonOnly ==
    [][/\ toggleLessonComplete =>
            /\ (CurrentLessonId \in completedLessons') # (CurrentLessonId \in completedLessons)
            /\ \A other \in (completedLessons \cup completedLessons') \ {CurrentLessonId} :
                   (other \in completedLessons') = (other \in completedLessons)
            /\ currentLesson' = currentLesson
            /\ Flipped(completedLessons', CurrentLessonId) = completedLessons
       /\ markCompleteAndNext =>
            /\ completedLessons \subseteq completedLessons'
            /\ completedLessons' \ completedLessons \subseteq {CurrentLessonId}
            /\ CurrentLessonId \in completedLessons']_vars

\* the course of three sections has a stored completion record and the
\* record and the completion set are empty: a lesson was marked complete
\* and a toggle on that lesson took it out again
C24_Witness ==
    /\ view = "course"
    /\ Len(courseStructure) = 3
    /\ currentLesson # NoLesson
    /\ completedLessons = {}
    /\ currentCourseId \in DOMAIN localStorage.course_progress
    /\ localStorage.course_progress[currentCourseId] =
          ProgressData(courseName, {}, TotalLessons(courseStructure))

(***************************************************************************)
(* Properties of the application across courses (Spec)                     *)
(***************************************************************************)
\* C26: whenever no load is in progress and currentLesson is set, it is the
\* index of a lesson of courseStructure; this covers the lesson
\* loadCourseFromLibrary resumes from the saved last session and the
\* structure an added course puts in place of the one currentLesson was
\* chosen in.
C26_CurrentLessonExists ==
    (tasks = <<>> /\ currentLesson # NoLesson) =>
        IsLesson(courseStructure, currentLesson.sectionIndex, currentLesson.lessonIndex)

\* C27: once every video file read has completed, the player of the lesson
\* screen shows the video of currentLesson and records its position under
\* the identifier of currentLesson, also when a lesson was selected while
\* the file of the lesson selected before was still being read.
C27_PlayerShowsCurrentLesson ==
    (/\ view = "course"
     /\ tasks = <<>>
     /\ player # NoPlayer
     /\ currentLesson # NoLesson
     /\ IsLesson(courseStructure, currentLesson.sectionIndex, currentLesson.lessonIndex))
    => /\ player.lessonId = LessonId(currentLesson.sectionIndex, currentLesson.lessonIndex)
       /\ player.video = VideoOf(structureOf, courseStructure, currentLesson.sectionIndex,
                                 currentLesson.lessonIndex)

\* the courses whose recorded playback positions differ between two maps
ChangedCourses(before, after) ==
    {id \in DOMAIN after : id \notin DOMAIN before \/ after[id] # before[id]}

\* C28: a playback-position update of a player changes the recorded
\* positions of no course but the one its video belongs to, also when it
\* arrives after the user went home and added or opened another course.
C28_PositionRecordedUnderOwnCourse ==
    [][timeupdate =>
          ChangedCourses(videoProgress, videoProgress')
              \subseteq {generateCourseId(player.video[1])}]_vars

\* C29: when no lesson is being rendered, shouldAutoPlay is false: every
\* markCompleteAndNext that has completed has left the flag false, also on
\* the last lesson of the course and when the next lesson failed to
\* render, so a lesson selected by hand does not auto-play.
C29_AutoPlayFlagReset ==
    tasks = <<>> => shouldAutoPlay = FALSE

\* C30: whenever every operation has completed (no handler waits, and
\* none was cut off by a page load), the courses of the library are the
\* courses with a stored directory handle, and every stored completion
\* record and last-session record belongs to a course of the library.
C30_LibraryMatchesStores ==
    (tasks = <<>> /\ pageLoads = 1) =>
        /\ DOMAIN courseLibrary = DOMAIN handleDB
        /\ DOMAIN localStorage.course_progress \subseteq DOMAIN courseLibrary
        /\ DOMAIN localStorage.last_session \subseteq DOMAIN courseLibrary

====
